---- MODULE Spec2Model ----
(***************************************************************************)
(* Model of the AI mental health counselor backend: the keyword            *)
(* classifiers and the prompt library of utils/therapy_prompts.py and the  *)
(* session bookkeeping of services/chat_service.py (ChatService), as       *)
(* served by the single shared ChatService instance of app.py.             *)
(***************************************************************************)
EXTENDS Integers, Sequences, FiniteSets, TLC

(***************************************************************************)
(* Python values.  The library code branches on the dynamic type of what   *)
(* it looks up (isinstance(..., dict), isinstance(..., list)), so values   *)
(* carry their type.  Strings that the service only stores and copies are  *)
(* kept as plain TLA+ strings.                                             *)
(***************************************************************************)
PyStr(s) == [type |-> "str", s |-> s]

PyList(es) == [type |-> "list", elems |-> es]

\* items: the sequence of << key, value >> pairs in insertion order
PyDict(items) == [type |-> "dict", items |-> items]

PyEnum(cls, name) == [type |-> "enum", cls |-> cls, name |-> name]

PyMethod(name) == [type |-> "method", name |-> name]

PyNone == [type |-> "NoneType"]

\* bool(v) as used by "if subcategory:"
Truthy(v) ==
  CASE v.type = "NoneType" -> FALSE
    [] v.type = "str" -> v.s /= ""
    [] v.type = "list" -> Len(v.elems) > 0
    [] v.type = "dict" -> Len(v.items) > 0
    [] OTHER -> TRUE

\* key in d
DictHas(d, k) == \E i \in 1..Len(d.items) : d.items[i][1] = k

\* d[key], for a key that is present
DictGet(d, k) == d.items[CHOOSE i \in 1..Len(d.items) : d.items[i][1] = k][2]

\* d.values(), in insertion order
DictValues(d) == [i \in 1..Len(d.items) |-> d.items[i][2]]

\* Outcome of a call: a returned value or a raised exception.
Return(v) == [kind |-> "return", value |-> v]

Raise(exc) == [kind |-> "raise", exc |-> exc]

\* A raised exception together with its str(e)
RaiseMsg(exc, msg) == [kind |-> "raise", exc |-> exc, msg |-> msg]

PyInt(n) == [type |-> "int", n |-> n]

\* keyword in text (substring containment on str)
Contains(text, keyword) ==
  \E i \in 1..(Len(text) - Len(keyword) + 1) :
     SubSeq(text, i, i + Len(keyword) - 1) = keyword

\* index of the first occurrence of the one-character string c in s, 0 if none
FirstIndex(s, c) ==
  LET I == {i \in 1..Len(s) : SubSeq(s, i, i) = c}
  IN  IF I = {} THEN 0 ELSE CHOOSE i \in I : \A j \in I : i <= j

(***************************************************************************)
(* utils/therapy_prompts.py: the enumerations and the template tables of   *)
(* TherapyPrompts, verbatim.                                               *)
(***************************************************************************)
base_system_prompt ==
  "\nYou are Alex, a compassionate and skilled AI mental health counselor. You provide empathetic, evidence-based support using various therapeutic approaches including CBT, DBT, and humanistic therapy.\n\nCORE PRINCIPLES:\n- Show genuine empathy and unconditional positive regard\n- Use active listening and reflective responses\n- Apply evidence-based therapeutic techniques appropriately\n- Maintain appropriate boundaries while being warm and supportive\n- Prioritize user safety and crisis intervention when needed\n- Adapt your communication style to the user's needs and preferences\n\nTHERAPEUTIC APPROACH:\n- Begin with rapport building and emotional validation\n- Use open-ended questions to explore thoughts and feelings\n- Employ specific techniques based on the user's needs (CBT, DBT, etc.)\n- Guide users toward self-discovery and insight\n- Provide practical coping strategies and tools\n- Encourage hope and resilience\n\nSAFETY PROTOCOLS:\n- Always assess for crisis indicators (suicidal ideation, self-harm, severe distress)\n- Implement crisis intervention protocols immediately when needed\n- Connect users with professional resources when appropriate\n- Document concerning statements for follow-up\n\nCONVERSATION STYLE:\n- Speak naturally and conversationally, not clinically\n- Use reflective listening and validation\n- Ask thoughtful follow-up questions\n- Provide gentle challenges to negative thought patterns\n- Offer practical exercises and homework when appropriate\n\nRemember: You are a supportive companion in their mental health journey, not a replacement for professional therapy when clinical intervention is needed.\n"

conversation_starters ==
  PyDict(<<
    << PyStr("first_session"), PyList(<<
          "Hello, I'm Alex, your AI mental health counselor. I'm here to provide a safe, supportive space for you to share what's on your mind. What would you like to talk about today?",
          "Welcome! I'm glad you decided to reach out. Taking this step shows real courage. What's been going on that made you want to connect today?",
          "Hi there. I'm Alex, and I'm here to listen and support you. There's no pressure to share anything you're not comfortable with. What feels most important to discuss right now?" >>) >>,
    << PyStr("returning_user"), PyList(<<
          "It's good to see you again. How have you been since we last talked?",
          "Welcome back. I've been thinking about our last conversation. How are you feeling today?",
          "Hello again. What's been on your mind since we last spoke?" >>) >>,
    << PyStr("crisis_detected"), PyList(<<
          "I hear that you're going through an incredibly difficult time right now. Your safety is my primary concern. Can you tell me more about what you're experiencing?",
          "It sounds like you're in a lot of pain right now. I want you to know that you're not alone. Let's talk about what's happening and how we can help you feel safer." >>) >>,
    << PyStr("check_in"), PyList(<<
          "How are you feeling right now, in this moment?",
          "Take a moment to check in with yourself. What emotions are you noticing?",
          "What's your emotional weather like today?" >>) >> >>)

therapeutic_techniques ==
  PyDict(<<
    << PyEnum("TherapyApproach", "CBT"), PyDict(<<
        << PyStr("thought_challenging"), PyList(<<
              "I notice you mentioned '{negative_thought}'. Let's examine this together. What evidence do you have that supports this thought?",
              "That sounds like a really difficult thought to have. Can you think of any alternative ways to look at this situation?",
              "When you think '{negative_thought}', how does that make you feel? Let's explore if this thought is helpful or accurate." >>) >>,
        << PyStr("behavioral_activation"), PyList(<<
              "What activities used to bring you joy or satisfaction? How might we gradually reintroduce some of these?",
              "Let's think about small, manageable steps you could take today that might improve your mood, even slightly.",
              "What would a valued activity look like for you this week? Something that aligns with what matters to you?" >>) >>,
        << PyStr("cognitive_restructuring"), PyList(<<
              "I'm hearing some 'all-or-nothing' thinking. Life often exists in the gray areas. What might a more balanced perspective look like?",
              "You mentioned '{catastrophic_thought}'. What would you tell a close friend who had this same worry?",
              "Let's try a thought experiment. What's the most realistic outcome of this situation?" >>) >> >>) >>,
    << PyEnum("TherapyApproach", "DBT"), PyDict(<<
        << PyStr("distress_tolerance"), PyList(<<
              "It sounds like you're experiencing intense emotions right now. Let's try a grounding technique. Can you name 5 things you can see right now?",
              "When emotions feel overwhelming, sometimes we need to ride the wave rather than fight it. What would help you tolerate this feeling for the next few minutes?",
              "Let's try the STOP technique: Stop, Take a breath, Observe what's happening, Proceed mindfully. What do you notice when you pause?" >>) >>,
        << PyStr("emotion_regulation"), PyList(<<
              "What emotion are you experiencing right now? Can you rate its intensity from 1-10?",
              "Emotions are like waves - they rise, peak, and naturally fall. What do you think this emotion is trying to tell you?",
              "Let's practice opposite action. If your emotion is urging you to {action}, what would the opposite, more helpful action be?" >>) >>,
        << PyStr("interpersonal_effectiveness"), PyList(<<
              "It sounds like that conversation was really difficult. How did you advocate for your needs in that situation?",
              "When you think about setting boundaries, what feels most challenging for you?",
              "Let's practice the DEAR MAN technique for your next difficult conversation." >>) >> >>) >>,
    << PyEnum("TherapyApproach", "HUMANISTIC"), PyDict(<<
        << PyStr("unconditional_positive_regard"), PyList(<<
              "I want you to know that whatever you're experiencing is valid and understandable given your circumstances.",
              "You're showing incredible strength by sharing this with me. Thank you for trusting me with your feelings.",
              "There's no judgment here. You're inherently worthy of compassion and understanding." >>) >>,
        << PyStr("reflection"), PyList(<<
              "It sounds like you're feeling {emotion} about {situation}. Is that right?",
              "I'm hearing that {reflection}. How does that resonate with you?",
              "What I'm picking up is {summary}. Does that capture what you're experiencing?" >>) >>,
        << PyStr("self_actualization"), PyList(<<
              "What does your authentic self look like? What would it mean to live more aligned with your true values?",
              "When do you feel most like yourself?",
              "What would change in your life if you fully accepted yourself as you are?" >>) >> >>) >>,
    << PyEnum("TherapyApproach", "SOLUTION_FOCUSED"), PyDict(<<
        << PyStr("scaling_questions"), PyList(<<
              "On a scale of 1-10, where 1 is the worst you've felt and 10 is the best, where are you today?",
              "If you moved up just one point on that scale, what would be different?",
              "What would need to happen for you to feel like you're at a {number} instead of a {current_number}?" >>) >>,
        << PyStr("exception_finding"), PyList(<<
              "Tell me about a recent time when this problem wasn't as intense. What was different about that situation?",
              "When do you feel most resilient or capable of handling challenges?",
              "What's worked for you in the past when you've faced similar difficulties?" >>) >>,
        << PyStr("miracle_question"), PyList(<<
              "Imagine you wake up tomorrow and this problem has been resolved. What would be the first sign that things are different?",
              "If we could wave a magic wand and your life was exactly as you wanted it, what would that look like?",
              "What would your best friend notice about you if this issue was no longer a problem?" >>) >> >>) >>,
    << PyEnum("TherapyApproach", "MINDFULNESS"), PyDict(<<
        << PyStr("present_moment"), PyList(<<
              "Let's take a moment to come back to the present. What do you notice about your breathing right now?",
              "I notice your mind has been traveling to the past/future. What's happening in this very moment?",
              "Can you bring your attention to your body? What sensations do you notice?" >>) >>,
        << PyStr("acceptance"), PyList(<<
              "What would it be like to hold this feeling with compassion rather than fighting it?",
              "Sometimes the struggle against our emotions causes more suffering than the emotions themselves. What would acceptance look like here?",
              "What if you could be curious about this experience rather than judgmental?" >>) >>,
        << PyStr("mindful_observation"), PyList(<<
              "Let's practice observing your thoughts like clouds passing in the sky. What thoughts are you noticing right now?",
              "Can you notice this emotion without becoming the emotion? You are the observer, not the observed.",
              "What would it be like to watch your thoughts with gentle curiosity instead of harsh judgment?" >>) >> >>) >> >>)

crisis_prompts ==
  PyDict(<<
    << PyStr("immediate_safety"), PyList(<<
          "Your safety is the most important thing right now. Are you currently in immediate danger?",
          "I'm very concerned about you. Do you have thoughts of hurting yourself or ending your life?",
          "Right now, in this moment, are you safe? That's what matters most." >>) >>,
    << PyStr("suicidal_ideation"), PyList(<<
          "Thank you for trusting me with this. Having thoughts of suicide can be incredibly frightening. Are you thinking about hurting yourself right now?",
          "I hear how much pain you're in. Suicide can feel like the only way out, but there are other options. Can you tell me more about these thoughts?",
          "You mentioned wanting to die. Are you having specific thoughts about how you might hurt yourself?" >>) >>,
    << PyStr("safety_planning"), PyList(<<
          "Let's create a safety plan together. Who are the people in your life you can reach out to when you're feeling this way?",
          "What are some things that have helped you get through difficult times before?",
          "Can you remove or secure any means of self-harm from your immediate environment?" >>) >>,
    << PyStr("professional_referral"), PyList(<<
          "I want to connect you with immediate professional support. Are you willing to speak with a crisis counselor right now?",
          "This level of distress requires professional intervention. Let's get you connected with someone who can provide immediate help.",
          "I'm going to provide you with some crisis resources. The National Suicide Prevention Lifeline is available 24/7 at 988." >>) >>,
    << PyStr("de_escalation"), PyList(<<
          "I can hear how overwhelmed you're feeling. Let's take this one moment at a time. Can you take a slow, deep breath with me?",
          "You're not alone in this. Many people have felt exactly what you're feeling and have found ways through. You can too.",
          "Right now, you're safe and you're talking to me. That's enough for this moment." >>) >> >>)

assessment_prompts ==
  PyDict(<<
    << PyStr("phq9_introduction"), PyList(<<
          "I'd like to understand better how you've been feeling lately. Would you be open to answering some questions about your mood over the past two weeks?",
          "To better support you, I'd like to do a brief assessment about your emotional well-being. This will help me understand how you've been feeling recently." >>) >>,
    << PyStr("gad7_introduction"), PyList(<<
          "I'd like to ask you some questions about anxiety and worry. This will help me understand your experience better.",
          "To get a clearer picture of what you're experiencing, would you be willing to answer some questions about anxiety symptoms?" >>) >>,
    << PyStr("mood_tracking"), PyList(<<
          "How would you describe your overall mood today compared to yesterday?",
          "What patterns do you notice in your mood throughout the day/week?",
          "On a scale of 1-10, how would you rate your mood right now?" >>) >>,
    << PyStr("sleep_assessment"), PyList(<<
          "How has your sleep been lately? Are you getting enough rest?",
          "Tell me about your sleep patterns. Any changes recently?",
          "What's your sleep like? Falling asleep, staying asleep, waking up?" >>) >>,
    << PyStr("social_functioning"), PyList(<<
          "How are your relationships with family and friends?",
          "Are you feeling connected to the people in your life?",
          "How has your social life been affected by what you're going through?" >>) >> >>)

emotional_responses ==
  PyDict(<<
    << PyEnum("EmotionalState", "ANXIOUS"), PyList(<<
          "I can hear the worry in your voice. Anxiety can feel overwhelming, but you're not alone in this.",
          "It sounds like your mind is racing with 'what if' thoughts. That's so exhausting. Let's slow down together.",
          "Anxiety often makes us feel like we need to solve everything right now. What if we just focused on this moment?" >>) >>,
    << PyEnum("EmotionalState", "DEPRESSED"), PyList(<<
          "I hear how heavy everything feels right now. Depression can make even simple tasks feel impossible.",
          "It sounds like you're carrying a lot of pain. That takes incredible strength, even when it doesn't feel like it.",
          "When depression is present, it can feel like nothing will ever change. But feelings, even the most painful ones, are temporary." >>) >>,
    << PyEnum("EmotionalState", "ANGRY"), PyList(<<
          "I can sense your frustration and anger. These are valid emotions - you have every right to feel upset.",
          "Anger often signals that something important to you has been threatened or violated. What is that for you?",
          "It sounds like you're really fired up about this. Anger can be a powerful emotion - what is it trying to tell you?" >>) >>,
    << PyEnum("EmotionalState", "OVERWHELMED"), PyList(<<
          "It sounds like you have so much on your plate right now. Feeling overwhelmed is completely understandable.",
          "When everything feels like too much, sometimes we need to break things down into smaller, manageable pieces.",
          "I hear that you're drowning in responsibilities. Let's figure out what's most urgent and what can wait." >>) >>,
    << PyEnum("EmotionalState", "HOPEFUL"), PyList(<<
          "I can hear the hope in your voice, and that's beautiful. What's contributing to this positive shift?",
          "It sounds like you're seeing some light at the end of the tunnel. That's wonderful progress.",
          "I'm noticing more energy and optimism in how you're talking. What's changed for you?" >>) >>,
    << PyEnum("EmotionalState", "NEUTRAL"), PyList(<<
          "I'm here to listen and support you. What would you like to talk about?",
          "How are you feeling right now?",
          "Is there something on your mind you'd like to share?" >>) >> >>)

closing_prompts ==
  PyDict(<<
    << PyStr("session_summary"), PyList(<<
          "Let's take a moment to reflect on what we've discussed today. What stands out to you from our conversation?",
          "We've covered a lot of ground today. What feels most important or meaningful from what we've talked about?",
          "As we wrap up, what are you taking away from our time together?" >>) >>,
    << PyStr("homework_assignment"), PyList(<<
          "Between now and next time, I'd like you to try {technique}. How does that sound to you?",
          "What's one small thing you could do this week to care for yourself?",
          "Let's pick one coping strategy we discussed to practice over the next few days." >>) >>,
    << PyStr("encouragement"), PyList(<<
          "You've shown real courage by sharing what you did today. That's not easy, and I'm proud of you for being here.",
          "Remember, healing isn't linear. Be patient and compassionate with yourself as you continue this journey.",
          "You have more strength than you realize. I see it in how you're facing these challenges." >>) >>,
    << PyStr("next_steps"), PyList(<<
          "When would you like to talk again? I'm here whenever you need support.",
          "What feels like the right next step for you in your healing journey?",
          "How can I best support you moving forward?" >>) >> >>)

(***************************************************************************)
(* TherapyPrompts.get_prompt                                               *)
(***************************************************************************)
\* str.format(**kwargs) for templates with named replacement fields:
\* a field whose name is not a keyword raises KeyError, an unmatched brace
\* raises ValueError.  kwargs is a function from field names to strings.
RECURSIVE Format(_, _)
Format(s, kwargs) ==
  LET open == FirstIndex(s, "{")
      close == FirstIndex(s, "}")
  IN  IF open = 0 /\ close = 0 THEN Return(s)
      ELSE IF open = 0 \/ close < open THEN Raise("ValueError")
      ELSE LET name == SubSeq(s, open + 1, close - 1)
               rest == Format(SubSeq(s, close + 1, Len(s)), kwargs)
           IN  IF name \notin DOMAIN kwargs THEN Raise("KeyError")
               ELSE IF rest.kind = "raise" THEN rest
               ELSE Return(SubSeq(s, 1, open - 1) \o kwargs[name] \o rest.value)

\* random.choice(seq), rnd being the draw of the random source
RandomChoice(seq, rnd) ==
  IF Len(seq) = 0 THEN Raise("IndexError")
  ELSE Return(seq[(rnd % Len(seq)) + 1])

\* The attributes set by TherapyPrompts.__init__.
InstanceAttributes ==
  PyDict(<< << PyStr("base_system_prompt"), PyStr(base_system_prompt) >>,
            << PyStr("conversation_starters"), conversation_starters >>,
            << PyStr("therapeutic_techniques"), therapeutic_techniques >>,
            << PyStr("crisis_prompts"), crisis_prompts >>,
            << PyStr("assessment_prompts"), assessment_prompts >>,
            << PyStr("emotional_responses"), emotional_responses >>,
            << PyStr("closing_prompts"), closing_prompts >> >>)

\* The methods of the class.
MethodNames ==
  {"_get_base_system_prompt", "_get_conversation_starters",
   "_get_therapeutic_techniques", "_get_crisis_prompts",
   "_get_assessment_prompts", "_get_emotional_responses",
   "_get_closing_prompts", "get_prompt", "get_crisis_intervention_prompt",
   "get_therapeutic_response", "get_emotional_response",
   "build_contextual_prompt"}

\* The class docstring.
ClassDoc ==
  "\n    Comprehensive therapeutic prompt system with evidence-based approaches\n    "

\* getattr(self, name) for a str name
GetAttr(name) ==
  IF DictHas(InstanceAttributes, PyStr(name))
    THEN Return(DictGet(InstanceAttributes, PyStr(name)))
  ELSE IF name \in MethodNames THEN Return(PyMethod(name))
  ELSE IF name = "__dict__" THEN Return(InstanceAttributes)
  ELSE IF name = "__doc__" THEN Return(PyStr(ClassDoc))
  ELSE Raise("AttributeError")

\* The for/else returning the text of the except clause.
NotFoundFallback_merged == "I'm here to listen and support you. What's on your mind?"

\* The return of the for/else (line 340).
NotFoundFallback == "I'm here to support you. What would you like to talk about?"

FormatFallback == "I'm here to listen and support you. What's on your mind?"

\* The except clause of get_prompt without KeyError.
GetPromptCaught_without_KeyError == {"AttributeError", "ValueError"}

\* The exception types the except clause of get_prompt catches.
GetPromptCaught == {"AttributeError", "KeyError", "ValueError"}

\* Lines 330-342: resolve the template group.  kind "prompts" carries the
\* value bound to the local variable prompts; kind "return" is the early
\* return of the for/else; kind "raise" is an exception.
ResolvePrompts(prompts_dict, subcategory) ==
  IF Truthy(subcategory)
    THEN IF prompts_dict.type = "dict" /\ DictHas(prompts_dict, subcategory)
           THEN [kind |-> "prompts", value |-> DictGet(prompts_dict, subcategory)]
         ELSE IF prompts_dict.type /= "dict"
           THEN Raise("AttributeError")   \* prompts_dict.values()
         ELSE LET vals == DictValues(prompts_dict)
                  hits == {i \in 1..Len(vals) :
                             vals[i].type = "dict" /\ DictHas(vals[i], subcategory)}
              IN  IF hits = {}
                    THEN Return(PyStr(NotFoundFallback))
                    ELSE [kind |-> "prompts",
                          value |-> DictGet(vals[CHOOSE i \in hits : \A j \in hits : i <= j],
                                            subcategory)]
    ELSE [kind |-> "prompts", value |-> prompts_dict]

\* Lines 344-351: pick an alternative and substitute the placeholders.
SelectAndFormat(prompts, kwargs, rnd) ==
  LET choice == IF prompts.type = "list"
                  THEN RandomChoice(prompts.elems, rnd)
                  ELSE Return(prompts)
  IN  IF choice.kind = "raise" THEN choice
      ELSE LET selected_prompt == IF prompts.type = "list"
                                    THEN PyStr(choice.value) ELSE choice.value
           IN  IF selected_prompt.type /= "str"
                 THEN Raise("AttributeError")   \* no attribute 'format'
                 ELSE LET f == Format(selected_prompt.s, kwargs)
                      IN  IF f.kind = "raise" THEN f ELSE Return(PyStr(f.value))

\* The body of the try block of get_prompt.
GetPromptBody(category, subcategory, kwargs, rnd) ==
  IF category = "base_system" THEN Return(PyStr(base_system_prompt))
  ELSE LET got == GetAttr(category)
       IN  IF got.kind = "raise" THEN got
           ELSE LET r == ResolvePrompts(got.value, subcategory)
                IN  IF r.kind = "prompts"
                      THEN SelectAndFormat(r.value, kwargs, rnd)
                      ELSE r

\* get_prompt(category, subcategory, **kwargs): category is a str,
\* subcategory a Python value (a str or None), rnd the random draw.
get_prompt(category, subcategory, kwargs, rnd) ==
  LET body == GetPromptBody(category, subcategory, kwargs, rnd)
  IN  IF body.kind = "raise" /\ body.exc \in GetPromptCaught
        THEN Return(PyStr(FormatFallback))
        ELSE body

\* The return of the except clause of get_therapeutic_response (line 369).
TechniqueFallback ==
  "I understand this is difficult. Can you tell me more about what you're experiencing?"

\* get_therapeutic_response(approach, technique, **kwargs): approach is a
\* member of TherapyApproach (by name), technique a str, rnd the random draw.
\* A keyword argument named like a parameter fails the call itself.
get_therapeutic_response(approach, technique, kwargs, rnd) ==
  LET key == PyEnum("TherapyApproach", approach)
      body ==
        IF ~ DictHas(therapeutic_techniques, key) THEN Raise("KeyError")
        ELSE LET approach_techniques == DictGet(therapeutic_techniques, key)
             IN  IF ~ DictHas(approach_techniques, PyStr(technique))
                   THEN Raise("KeyError")
                 ELSE LET technique_prompts ==
                            DictGet(approach_techniques, PyStr(technique))
                          choice == RandomChoice(technique_prompts.elems, rnd)
                      IN  IF choice.kind = "raise" THEN choice
                          ELSE LET f == Format(choice.value, kwargs)
                               IN  IF f.kind = "raise" THEN f
                                   ELSE Return(PyStr(f.value))
  IN  IF DOMAIN kwargs \cap {"self", "approach", "technique"} /= {}
        THEN Raise("TypeError")   \* multiple values for a parameter
      ELSE IF body.kind = "raise" /\ body.exc \in {"KeyError", "ValueError"}
        THEN Return(PyStr(TechniqueFallback))
      ELSE body

(***************************************************************************)
(* The enumerations.  A member is modelled by its name; Value gives the    *)
(* member's .value string.                                                 *)
(***************************************************************************)
TherapyApproach ==
  [ CBT |-> "cognitive_behavioral_therapy",
    DBT |-> "dialectical_behavior_therapy",
    HUMANISTIC |-> "humanistic_therapy",
    SOLUTION_FOCUSED |-> "solution_focused_therapy",
    MINDFULNESS |-> "mindfulness_based_therapy",
    CRISIS_INTERVENTION |-> "crisis_intervention" ]

EmotionalState ==
  [ NEUTRAL |-> "neutral",
    ANXIOUS |-> "anxious",
    DEPRESSED |-> "depressed",
    ANGRY |-> "angry",
    OVERWHELMED |-> "overwhelmed",
    HOPEFUL |-> "hopeful",
    CRISIS |-> "crisis" ]

(***************************************************************************)
(* Keyword classifiers                                                     *)
(***************************************************************************)
UpperToLower ==
  [A |-> "a", B |-> "b", C |-> "c", D |-> "d", E |-> "e", F |-> "f", G |-> "g",
   H |-> "h", I |-> "i", J |-> "j", K |-> "k", L |-> "l", M |-> "m", N |-> "n",
   O |-> "o", P |-> "p", Q |-> "q", R |-> "r", S |-> "s", T |-> "t", U |-> "u",
   V |-> "v", W |-> "w", X |-> "x", Y |-> "y", Z |-> "z"]

\* str.lower() of a one-character string (ASCII)
LowerChar(c) == IF c \in DOMAIN UpperToLower THEN UpperToLower[c] ELSE c

\* str.lower()
RECURSIVE Lower(_)
Lower(s) ==
  IF Len(s) = 0 THEN s
  ELSE LowerChar(SubSeq(s, 1, 1)) \o Lower(SubSeq(s, 2, Len(s)))

\* value.lower() on a value that is not a str
NoLower(value) ==
  RaiseMsg("AttributeError", "'" \o value.type \o "' object has no attribute 'lower'")

\* any(keyword in text for keyword in keywords)
AnyKeywordIn(keywords, text) ==
  \E i \in 1..Len(keywords) : Contains(text, keywords[i])

CRISIS_KEYWORDS ==
  [ high_risk |->
      << "kill myself", "suicide", "end my life", "not worth living",
         "better off dead", "suicide plan", "kill me", "die", "ending it all",
         "can't go on" >>,
    medium_risk |->
      << "hopeless", "worthless", "pointless", "give up",
         "can't take it anymore", "want to disappear", "tired of living",
         "nothing matters", "no point" >>,
    self_harm |->
      << "cut myself", "hurt myself", "self harm", "cutting", "burning myself",
         "punish myself", "deserve pain", "physical pain" >> ]

\* detect_crisis_level matching the text as typed, without text.lower()
detect_crisis_level_case_sensitive(text) ==
  IF text.type /= "str" THEN NoLower(text)
  ELSE IF AnyKeywordIn(CRISIS_KEYWORDS.high_risk, text.s) THEN Return("high")
  ELSE IF AnyKeywordIn(CRISIS_KEYWORDS.self_harm, text.s) THEN Return("high")
  ELSE IF AnyKeywordIn(CRISIS_KEYWORDS.medium_risk, text.s) THEN Return("medium")
  ELSE Return("none")

\* detect_crisis_level reporting the medium-risk phrases as 'low'
detect_crisis_level_medium_as_low(text) ==
  IF text.type /= "str" THEN NoLower(text)
  ELSE LET text_lower == Lower(text.s)
       IN  IF AnyKeywordIn(CRISIS_KEYWORDS.high_risk, text_lower) THEN Return("high")
           ELSE IF AnyKeywordIn(CRISIS_KEYWORDS.self_harm, text_lower) THEN Return("high")
           ELSE IF AnyKeywordIn(CRISIS_KEYWORDS.medium_risk, text_lower) THEN Return("low")
           ELSE Return("none")

\* detect_crisis_level with 'low' as the level of a text without any phrase
detect_crisis_level_default_low(text) ==
  IF text.type /= "str" THEN NoLower(text)
  ELSE LET text_lower == Lower(text.s)
       IN  IF AnyKeywordIn(CRISIS_KEYWORDS.high_risk, text_lower) THEN Return("high")
           ELSE IF AnyKeywordIn(CRISIS_KEYWORDS.self_harm, text_lower) THEN Return("high")
           ELSE IF AnyKeywordIn(CRISIS_KEYWORDS.medium_risk, text_lower) THEN Return("medium")
           ELSE Return("low")

\* detect_crisis_level(text), text a Python value: text.lower() raises
\* AttributeError on a value that is not a str.
detect_crisis_level(text) ==
  IF text.type /= "str" THEN NoLower(text)
  ELSE LET text_lower == Lower(text.s)
       IN  IF AnyKeywordIn(CRISIS_KEYWORDS.high_risk, text_lower) THEN Return("high")
           ELSE IF AnyKeywordIn(CRISIS_KEYWORDS.self_harm, text_lower) THEN Return("high")
           ELSE IF AnyKeywordIn(CRISIS_KEYWORDS.medium_risk, text_lower) THEN Return("medium")
           ELSE Return("none")

\* CRISIS_KEYWORDS of models/crisis_detection.py (keys high, medium, self_harm)
crisis_detection_CRISIS_KEYWORDS ==
  [ high |->
      << "kill myself", "suicide", "end my life", "not worth living",
         "better off dead", "suicide plan", "kill me", "die", "ending it all",
         "can't go on" >>,
    medium |->
      << "hopeless", "worthless", "pointless", "give up",
         "can't take it anymore", "want to disappear", "tired of living",
         "nothing matters", "no point" >>,
    self_harm |->
      << "cut myself", "hurt myself", "self harm", "cutting", "burning myself",
         "punish myself", "deserve pain", "physical pain" >> ]

\* crisis_detection.detect_crisis_level that leaves the self_harm list out of
\* its first loop
crisis_detection_detect_crisis_level_high_only(text) ==
  IF text.type /= "str" THEN NoLower(text)
  ELSE LET text_lower == Lower(text.s)
       IN  IF AnyKeywordIn(crisis_detection_CRISIS_KEYWORDS.high, text_lower)
             THEN Return("high")
           ELSE IF AnyKeywordIn(crisis_detection_CRISIS_KEYWORDS.medium, text_lower)
             THEN Return("medium")
           ELSE Return("none")

\* detect_crisis_level(text) of models/crisis_detection.py: one loop over the
\* concatenation high + self_harm, then one over medium.
crisis_detection_detect_crisis_level(text) ==
  IF text.type /= "str" THEN NoLower(text)
  ELSE LET text_lower == Lower(text.s)
       IN  IF AnyKeywordIn(crisis_detection_CRISIS_KEYWORDS.high
                             \o crisis_detection_CRISIS_KEYWORDS.self_harm,
                           text_lower)
             THEN Return("high")
           ELSE IF AnyKeywordIn(crisis_detection_CRISIS_KEYWORDS.medium, text_lower)
             THEN Return("medium")
           ELSE Return("none")

anxiety_keywords ==
  << "anxious", "worried", "nervous", "stress", "panic", "fear", "scared" >>

depression_keywords ==
  << "sad", "depressed", "hopeless", "worthless", "tired", "exhausted", "empty" >>

anger_keywords ==
  << "angry", "furious", "mad", "frustrated", "irritated", "rage" >>

overwhelmed_keywords ==
  << "overwhelmed", "too much", "can't handle", "drowning", "swamped" >>

hopeful_keywords ==
  << "hope", "better", "improving", "progress", "optimistic", "positive" >>

\* _detect_emotional_state testing the depression group before the anxiety group.
_detect_emotional_state_depression_first(message) ==
  IF message.type /= "str" THEN NoLower(message)
  ELSE LET message_lower == Lower(message.s)
       IN  IF AnyKeywordIn(depression_keywords, message_lower) THEN Return("DEPRESSED")
           ELSE IF AnyKeywordIn(anxiety_keywords, message_lower) THEN Return("ANXIOUS")
           ELSE IF AnyKeywordIn(anger_keywords, message_lower) THEN Return("ANGRY")
           ELSE IF AnyKeywordIn(overwhelmed_keywords, message_lower) THEN Return("OVERWHELMED")
           ELSE IF AnyKeywordIn(hopeful_keywords, message_lower) THEN Return("HOPEFUL")
           ELSE Return("NEUTRAL")

\* ChatService._detect_emotional_state(message); returns an EmotionalState member
_detect_emotional_state(message) ==
  IF message.type /= "str" THEN NoLower(message)
  ELSE LET message_lower == Lower(message.s)
       IN  IF AnyKeywordIn(anxiety_keywords, message_lower) THEN Return("ANXIOUS")
           ELSE IF AnyKeywordIn(depression_keywords, message_lower) THEN Return("DEPRESSED")
           ELSE IF AnyKeywordIn(anger_keywords, message_lower) THEN Return("ANGRY")
           ELSE IF AnyKeywordIn(overwhelmed_keywords, message_lower) THEN Return("OVERWHELMED")
           ELSE IF AnyKeywordIn(hopeful_keywords, message_lower) THEN Return("HOPEFUL")
           ELSE Return("NEUTRAL")

\* _choose_therapy_approach with the branches of overwhelmed and angry exchanged
_choose_therapy_approach_swapped(message, emotional_state, crisis_detected) ==
  IF crisis_detected THEN "CRISIS_INTERVENTION"
  ELSE IF emotional_state = "ANXIOUS" THEN "CBT"
  ELSE IF emotional_state = "DEPRESSED" THEN "HUMANISTIC"
  ELSE IF emotional_state = "OVERWHELMED" THEN "DBT"
  ELSE IF emotional_state = "ANGRY" THEN "SOLUTION_FOCUSED"
  ELSE "CBT"

\* _choose_therapy_approach testing the emotional state for the crisis branch.
_choose_therapy_approach_by_state(message, emotional_state, crisis_detected) ==
  IF emotional_state = "CRISIS" THEN "CRISIS_INTERVENTION"
  ELSE IF emotional_state = "ANXIOUS" THEN "CBT"
  ELSE IF emotional_state = "DEPRESSED" THEN "HUMANISTIC"
  ELSE IF emotional_state = "OVERWHELMED" THEN "SOLUTION_FOCUSED"
  ELSE IF emotional_state = "ANGRY" THEN "DBT"
  ELSE "CBT"

\* ChatService._choose_therapy_approach(message, emotional_state, crisis_detected);
\* returns a TherapyApproach member
_choose_therapy_approach(message, emotional_state, crisis_detected) ==
  IF crisis_detected THEN "CRISIS_INTERVENTION"
  ELSE IF emotional_state = "ANXIOUS" THEN "CBT"
  ELSE IF emotional_state = "DEPRESSED" THEN "HUMANISTIC"
  ELSE IF emotional_state = "OVERWHELMED" THEN "SOLUTION_FOCUSED"
  ELSE IF emotional_state = "ANGRY" THEN "DBT"
  ELSE "CBT"

(***************************************************************************)
(* Prompt composition                                                      *)
(***************************************************************************)
\* The banner of line 401; the source brackets it with a siren glyph,
\* written here as "(!)".
CrisisBanner ==
  "(!) CRISIS INDICATORS DETECTED - PRIORITIZE SAFETY ASSESSMENT (!)\n\n"

approach_guidance ==
  [ CBT |-> "Focus on identifying and challenging negative thought patterns. Use cognitive restructuring techniques.",
    DBT |-> "Emphasize distress tolerance and emotion regulation skills. Validate emotions while teaching coping strategies.",
    HUMANISTIC |-> "Provide unconditional positive regard and facilitate self-discovery through reflection.",
    SOLUTION_FOCUSED |-> "Focus on strengths, resources, and what's working. Ask scaling and exception-finding questions.",
    MINDFULNESS |-> "Encourage present-moment awareness and acceptance. Use grounding techniques.",
    CRISIS_INTERVENTION |-> "Prioritize immediate safety. Assess risk and connect with professional resources." ]

\* seq[:3]
LastThree_first(seq) == SubSeq(seq, 1, IF Len(seq) > 3 THEN 3 ELSE Len(seq))

\* seq[-3:]
LastThree(seq) == SubSeq(seq, IF Len(seq) > 3 THEN Len(seq) - 2 ELSE 1, Len(seq))

\* The "PREVIOUS SESSION CONTEXT" block; session_history is a sequence of
\* strings, empty when the argument is None or empty.
RECURSIVE SessionLines(_)
SessionLines(sessions) ==
  IF Len(sessions) = 0 THEN ""
  ELSE "- " \o Head(sessions) \o "\n" \o SessionLines(Tail(sessions))

\* TherapyPrompts.build_contextual_prompt
build_contextual_prompt(base_context, emotional_state, therapy_approach, session_history, crisis_indicators) ==
  base_system_prompt \o "\n\n"
  \o (IF crisis_indicators THEN CrisisBanner ELSE "")
  \o "CURRENT EMOTIONAL STATE: " \o EmotionalState[emotional_state] \o "\n"
  \o "RECOMMENDED THERAPEUTIC APPROACH: " \o TherapyApproach[therapy_approach] \o "\n\n"
  \o (IF Len(session_history) > 0
        THEN "PREVIOUS SESSION CONTEXT:\n" \o SessionLines(LastThree(session_history)) \o "\n"
        ELSE "")
  \o "CURRENT CONVERSATION CONTEXT:\n" \o base_context \o "\n\n"
  \o "THERAPEUTIC FOCUS: " \o approach_guidance[therapy_approach] \o "\n\n"
  \o "Respond with empathy, professionalism, and appropriate therapeutic techniques. Keep responses conversational and supportive."

\* The loop of lines 203-205 over the recent exchanges.
RECURSIVE RecentContext(_)
RecentContext(exchanges) ==
  IF Len(exchanges) = 0 THEN ""
  ELSE "User: " \o Head(exchanges).user_message \o "\n"
       \o "Alex: " \o Head(exchanges).ai_response \o "\n\n"
       \o RecentContext(Tail(exchanges))

\* _build_therapeutic_prompt not handing the crisis flag on.
_build_therapeutic_prompt_without_flag(history, user_message, emotional_state, therapy_approach, crisis_detected) ==
  LET recent_context == RecentContext(LastThree(history))
      current_context == recent_context \o "User: " \o user_message
  IN  build_contextual_prompt(current_context, emotional_state,
                              therapy_approach, << >>, FALSE)

\* _build_therapeutic_prompt leaving the current message out of the context.
_build_therapeutic_prompt_without_message(history, user_message, emotional_state, therapy_approach, crisis_detected) ==
  build_contextual_prompt(RecentContext(LastThree(history)), emotional_state,
                          therapy_approach, << >>, crisis_detected)

\* ChatService._build_therapeutic_prompt, history being self.conversation_history
_build_therapeutic_prompt(history, user_message, emotional_state, therapy_approach, crisis_detected) ==
  LET recent_context == RecentContext(LastThree(history))
      current_context == recent_context \o "User: " \o user_message
  IN  build_contextual_prompt(current_context, emotional_state,
                              therapy_approach, << >>, crisis_detected)

(***************************************************************************)
(* The generation backend (Ollama over HTTP), seen from _generate_response *)
(***************************************************************************)
\* What requests.post(..., timeout=30) can come back with:
\*   ok          status 200, body a JSON object with a "response" field
\*   ok_empty    status 200, body a JSON object without that field
\*   ok_not_dict status 200, body JSON that is not an object (e.g. a list)
\*   status      a status other than 200
\*   refused     requests.exceptions.ConnectionError
\*   timeout     requests.exceptions.Timeout after the 30 seconds
BackendOutcomes ==
  {"ok", "ok_empty", "ok_not_dict", "status", "refused", "timeout"}

\* The text a healthy backend generates.
ModelReply == "I hear you. Tell me more."

\* _generate_response without the status check of line 236: the body of an
\* error answer is read like that of a success.
_generate_response_status_unchecked(prompt, outcome) ==
  CASE outcome = "ok" -> Return(ModelReply)
    [] outcome \in {"ok_empty", "status"} ->
         Return("I understand. Can you tell me more about that?")
    [] outcome = "ok_not_dict" ->
         RaiseMsg("AttributeError", "'list' object has no attribute 'get'")
    [] outcome \in {"refused", "timeout"} ->
         Return("I'm unable to connect to my language model right now. Please try again later.")

\* _generate_response without the except clause: a connection error or a
\* timeout leaves the method.
_generate_response_uncaught(prompt, outcome) ==
  CASE outcome = "ok" -> Return(ModelReply)
    [] outcome = "ok_empty" -> Return("I understand. Can you tell me more about that?")
    [] outcome = "ok_not_dict" ->
         RaiseMsg("AttributeError", "'list' object has no attribute 'get'")
    [] outcome = "status" ->
         Return("I'm having trouble connecting right now. Please try again.")
    [] outcome \in {"refused", "timeout"} ->
         RaiseMsg("RequestException", "HTTPConnectionPool(host='localhost', port=11434)")

\* ChatService._generate_response(prompt), given what the backend does
_generate_response(prompt, outcome) ==
  CASE outcome = "ok" -> Return(ModelReply)
    [] outcome = "ok_empty" -> Return("I understand. Can you tell me more about that?")
    [] outcome = "ok_not_dict" ->
         RaiseMsg("AttributeError", "'list' object has no attribute 'get'")
    [] outcome = "status" ->
         Return("I'm having trouble connecting right now. Please try again.")
    [] outcome \in {"refused", "timeout"} ->
         Return("I'm unable to connect to my language model right now. Please try again later.")

(***************************************************************************)
(* services/chat_service.py: the ChatService instance shared by all        *)
(* requests (app.py line 7).                                               *)
(*                                                                         *)
(* Wall-clock readings are modelled by a logical clock that start_session  *)
(* advances; the timestamp of a conversation entry and the durations       *)
(* reported by end_session and get_session_stats are not modelled.         *)
(***************************************************************************)
VARIABLES
  conversation_history,   \* self.conversation_history
  session_context,        \* self.session_context
  clock,                  \* datetime.now(), as the number of sessions started
  response,               \* what the last call returned (or the exception it let escape)
  last_call,              \* the call made last: the method and its inputs
  args,                   \* inputs of a library function under test
  ret,                    \* its outcome
  threads                 \* the caller threads: position and locals of the
                          \* process_message call each is running

vars == << conversation_history, session_context, clock, response, last_call,
           args, ret, threads >>

\* Most conversation entries recorded in one run.
MaxTurns == 2

\* Most start_session calls in one run.
MaxSessions == 2

\* Draws of the random source: enough to reach every alternative of a
\* list of two or three.
RandomDraws == 0..5

\* The messages a client posts to /chat/ ("message" of the JSON body, ""
\* when absent; any JSON value).
Messages ==
  { PyStr("I want to kill myself"),
    PyStr("I feel hopeless and want to give up"),
    PyStr("I'm feeling really anxious about my presentation"),
    PyStr(""),
    PyInt(5) }

\* The user_id of a request (None when absent).
UserIds == { PyNone, PyStr("user123") }

\* The classification of each message of Messages, computed once.
Classified ==
  [ m \in Messages |->
      [ crisis |-> detect_crisis_level(m), emotion |-> _detect_emotional_state(m) ] ]

\* The welcome drawn from the starters for a returning user.
WelcomeMessages_returning_user ==
  [ rnd \in RandomDraws |->
      get_prompt("conversation_starters", PyStr("returning_user"), << >>, rnd) ]

\* The possible results of the two get_prompt calls of the service, per draw.
WelcomeMessages ==
  [ rnd \in RandomDraws |->
      get_prompt("conversation_starters", PyStr("first_session"), << >>, rnd) ]

ClosingMessages ==
  [ rnd \in RandomDraws |->
      get_prompt("closing_prompts", PyStr("session_summary"), << >>, rnd) ]

\* The value of response before any call has returned.
NoResponse == << >>

\* The threads that call process_message on the shared ChatService, one call
\* each.
Threads == {"t1", "t2"}

\* A thread that has not called yet: no local is bound, no request is out.
NotCalled == [ pc |-> "ready", locals |-> << >>, backend |-> "none" ]

\* ChatService.__init__
InitService ==
  /\ conversation_history = << >>
  /\ session_context =
       [ session_start |-> 0,
         emotional_state |-> "NEUTRAL",
         therapy_approach |-> "CBT",
         crisis_detected |-> FALSE,
         session_summary |-> "" ]
  /\ clock = 0
  /\ response = NoResponse
  /\ last_call = [method |-> "__init__"]
  /\ threads = [t \in Threads |-> NotCalled]

\* An exception that leaves a method: the caller gets no response.
Escaped(e) == [exception |-> e.exc]

\* ChatService.start_session(user_id)
start_session(user_id) ==
  /\ clock < MaxSessions
  /\ \E rnd \in RandomDraws :
       LET now == clock + 1
           context == [ session_start |-> now,
                        emotional_state |-> "NEUTRAL",
                        therapy_approach |-> "CBT",
                        crisis_detected |-> FALSE,
                        session_summary |-> "",
                        user_id |-> user_id ]
           welcome_message == WelcomeMessages[rnd]
       IN  /\ clock' = now
           /\ session_context' = context
           /\ response' =
                IF welcome_message.kind = "raise" THEN Escaped(welcome_message)
                ELSE [ message |-> welcome_message.value.s,
                       session_id |-> ToString(context.session_start),
                       emotional_state |-> EmotionalState[context.emotional_state],
                       therapy_approach |-> TherapyApproach[context.therapy_approach] ]
  /\ last_call' = [method |-> "start_session", user_id |-> user_id]
  /\ UNCHANGED << conversation_history, args, ret, threads >>

\* ChatService._get_crisis_resources
_get_crisis_resources ==
  [ emergency_contacts |->
      [ national_suicide_prevention |-> "988",
        crisis_text_line |-> "Text HOME to 741741",
        emergency_services |-> "911" ],
    immediate_actions |->
      << "Remove any means of self-harm from your environment",
         "Contact a trusted friend or family member",
         "Go to the nearest emergency room if you're in immediate danger",
         "Call 988 for immediate crisis support" >>,
    safety_plan |-> "Consider creating a safety plan with a mental health professional" ]

DegradedMessage ==
  "I'm having trouble processing your message right now. Please try again, and if you're in crisis, please contact a crisis helpline immediately."

\* The exception classes that can be raised inside process_message.
RaisedClasses ==
  {"AttributeError", "KeyError", "ValueError", "IndexError", "TypeError",
   "RequestException"}

\* An except clause that catches the lookup and value errors only.
ProcessMessageCaught_narrow == {"KeyError", "ValueError", "IndexError"}

\* "except Exception" of process_message: every class above derives from Exception.
ProcessMessageCaught == RaisedClasses

\* The except block of process_message (lines 133-139), or the exception
\* leaving the method when the clause does not catch it.
HandleException(e) ==
  IF e.exc \in ProcessMessageCaught
    THEN [ message |-> DegradedMessage, error |-> e.msg, crisis_level |-> "unknown" ]
    ELSE Escaped(e)

\* The response with the crisis resources attached whenever a crisis was detected.
PrepareResponse_on_detected(ai_response, emotional_state, therapy_approach, crisis_level, context) ==
  LET resp == [ message |-> ai_response,
                emotional_state |-> EmotionalState[emotional_state],
                therapy_approach |-> TherapyApproach[therapy_approach],
                crisis_level |-> crisis_level,
                session_id |-> ToString(context.session_start) ]
  IN  IF crisis_level /= "none"
        THEN [ k \in DOMAIN resp \cup {"crisis_resources"} |->
                 IF k = "crisis_resources" THEN _get_crisis_resources ELSE resp[k] ]
        ELSE resp

\* Lines 118-131: the response of a processed message.
PrepareResponse(ai_response, emotional_state, therapy_approach, crisis_level, context) ==
  LET resp == [ message |-> ai_response,
                emotional_state |-> EmotionalState[emotional_state],
                therapy_approach |-> TherapyApproach[therapy_approach],
                crisis_level |-> crisis_level,
                session_id |-> ToString(context.session_start) ]
  IN  IF crisis_level = "high"
        THEN [ k \in DOMAIN resp \cup {"crisis_resources"} |->
                 IF k = "crisis_resources" THEN _get_crisis_resources ELSE resp[k] ]
        ELSE resp

\* Line 88 with the medium level left out.
CrisisDetected_high_only(crisis_level) == crisis_level = "high"

\* Line 88: crisis_detected = crisis_level in ["high", "medium"]
CrisisDetected(crisis_level) == crisis_level \in {"high", "medium"}

\* Lines 87-102: the local variable prompt of process_message for a str
\* user_message, history being self.conversation_history at the call.
prompt(history, user_message) ==
  LET crisis_level == Classified[user_message].crisis.value
      crisis_detected == CrisisDetected(crisis_level)
      emotional_state == Classified[user_message].emotion.value
      therapy_approach == _choose_therapy_approach(user_message, emotional_state,
                                                   crisis_detected)
  IN  _build_therapeutic_prompt(history, user_message.s, emotional_state,
                                therapy_approach, crisis_detected)

\* Line 116 putting the entry first.
StoreConversation_prepend(history, conversation_entry) ==
  << conversation_entry >> \o history

\* Line 116: self.conversation_history.append(conversation_entry)
StoreConversation(history, conversation_entry) ==
  Append(history, conversation_entry)

\* ChatService.process_message(user_message, user_id) run against the state
\* (history, context) with the backend behaving as outcome: the state it
\* leaves and what it returns.
process_message(history, context, user_message, outcome) ==
  LET crisis == Classified[user_message].crisis
  IN  IF crisis.kind = "raise"
        THEN [ history |-> history, context |-> context,
               response |-> HandleException(crisis) ]
      ELSE
      LET crisis_level == crisis.value
          crisis_detected == CrisisDetected(crisis_level)
          context1 == [context EXCEPT !.crisis_detected = crisis_detected]
          emotional_state == Classified[user_message].emotion.value
          context2 == [context1 EXCEPT !.emotional_state = emotional_state]
          therapy_approach == _choose_therapy_approach(user_message, emotional_state,
                                                       crisis_detected)
          context3 == [context2 EXCEPT !.therapy_approach = therapy_approach]
          generated == _generate_response(prompt(history, user_message), outcome)
      IN  IF generated.kind = "raise"
            THEN [ history |-> history, context |-> context3,
                   response |-> HandleException(generated) ]
          ELSE
          LET ai_response == generated.value
              conversation_entry ==
                [ user_message |-> user_message.s,
                  ai_response |-> ai_response,
                  emotional_state |-> EmotionalState[emotional_state],
                  therapy_approach |-> TherapyApproach[therapy_approach],
                  crisis_level |-> crisis_level ]
          IN  [ history |-> StoreConversation(history, conversation_entry),
                context |-> context3,
                response |-> PrepareResponse(ai_response, emotional_state,
                                             therapy_approach, crisis_level, context3) ]

\* The call chat_service.process_message(user_message, user_id) of
\* chat_endpoint; user_id is not used by the method.
CallProcessMessage(user_message, user_id, outcome) ==
  /\ LET r == process_message(conversation_history, session_context,
                              user_message, outcome)
     IN  /\ conversation_history' = r.history
         /\ session_context' = r.context
         /\ response' = r.response
  /\ last_call' = [method |-> "process_message", user_message |-> user_message,
                   outcome |-> outcome]
  /\ UNCHANGED << clock, args, ret, threads >>

\* The call, in a run that records at most MaxTurns conversation entries.
ProcessMessage(user_message, user_id, outcome) ==
  /\ Len(conversation_history) < MaxTurns
  /\ CallProcessMessage(user_message, user_id, outcome)

\* ChatService._get_emotional_state_summary: occurrences of each emotional
\* state recorded in history
_get_emotional_state_summary(history) ==
  [ emotion \in {history[i].emotional_state : i \in 1..Len(history)} |->
      Cardinality({i \in 1..Len(history) : history[i].emotional_state = emotion}) ]

\* max(emotional_counts.items(), key=lambda x: x[1])[0]: the first key, in
\* insertion order (order of first occurrence in history), whose count is maximal
PrimaryEmotion(history) ==
  LET emotional_counts == _get_emotional_state_summary(history)
      first(e) == CHOOSE i \in 1..Len(history) :
                    /\ history[i].emotional_state = e
                    /\ \A j \in 1..(i - 1) : history[j].emotional_state /= e
  IN  CHOOSE e \in DOMAIN emotional_counts :
        \A f \in DOMAIN emotional_counts :
           \/ emotional_counts[f] < emotional_counts[e]
           \/ emotional_counts[f] = emotional_counts[e] /\ first(e) <= first(f)

\* _generate_session_summary counting the high-risk entries only.
_generate_session_summary_high_only(history) ==
  IF Len(history) = 0 THEN "Session ended without any conversation."
  ELSE LET primary_emotion == PrimaryEmotion(history)
           crisis_count == Cardinality({i \in 1..Len(history) :
                                          history[i].crisis_level = "high"})
       IN  "Session focused on " \o primary_emotion \o " experiences. "
           \o (IF crisis_count > 0
                 THEN "Crisis indicators were detected " \o ToString(crisis_count) \o " times. "
                 ELSE "")
           \o "Total of " \o ToString(Len(history)) \o " exchanges occurred."

\* ChatService._generate_session_summary
_generate_session_summary(history) ==
  IF Len(history) = 0 THEN "Session ended without any conversation."
  ELSE LET primary_emotion == PrimaryEmotion(history)
           crisis_count == Cardinality({i \in 1..Len(history) :
                                          history[i].crisis_level /= "none"})
       IN  "Session focused on " \o primary_emotion \o " experiences. "
           \o (IF crisis_count > 0
                 THEN "Crisis indicators were detected " \o ToString(crisis_count) \o " times. "
                 ELSE "")
           \o "Total of " \o ToString(Len(history)) \o " exchanges occurred."

\* end_session discarding the conversation once it is summarised.
end_session_clearing ==
  /\ \E rnd \in RandomDraws :
       LET session_summary == _generate_session_summary(conversation_history)
           closing_message == ClosingMessages[rnd]
       IN  response' =
             IF closing_message.kind = "raise" THEN Escaped(closing_message)
             ELSE [ message |-> closing_message.value.s,
                    session_summary |-> session_summary,
                    total_exchanges |-> Len(conversation_history),
                    emotional_states_observed |->
                      _get_emotional_state_summary(conversation_history) ]
  /\ conversation_history' = << >>
  /\ last_call' = [method |-> "end_session"]
  /\ UNCHANGED << session_context, clock, args, ret, threads >>

\* ChatService.end_session
end_session ==
  /\ \E rnd \in RandomDraws :
       LET session_summary == _generate_session_summary(conversation_history)
           closing_message == ClosingMessages[rnd]
       IN  response' =
             IF closing_message.kind = "raise" THEN Escaped(closing_message)
             ELSE [ message |-> closing_message.value.s,
                    session_summary |-> session_summary,
                    total_exchanges |-> Len(conversation_history),
                    emotional_states_observed |->
                      _get_emotional_state_summary(conversation_history) ]
  /\ last_call' = [method |-> "end_session"]
  /\ UNCHANGED << conversation_history, session_context, clock, args, ret, threads >>

\* The dict get_session_stats returns in the state (history, context)
\* (lines 326-333, the duration left out).
SessionStatsOf(history, context) ==
  [ total_exchanges |-> Len(history),
    current_emotional_state |-> EmotionalState[context.emotional_state],
    current_therapy_approach |-> TherapyApproach[context.therapy_approach],
    crisis_detected |-> context.crisis_detected,
    emotional_states_observed |-> _get_emotional_state_summary(history) ]

\* ChatService.get_session_stats
get_session_stats ==
  /\ response' = SessionStatsOf(conversation_history, session_context)
  /\ last_call' = [method |-> "get_session_stats"]
  /\ UNCHANGED << conversation_history, session_context, clock, args, ret, threads >>

\* POST /start_session/
StartSession == \E user_id \in UserIds : start_session(user_id)

\* POST /chat/
Chat ==
  \E user_message \in Messages, outcome \in BackendOutcomes, user_id \in UserIds :
     ProcessMessage(user_message, user_id, outcome)

\* POST /end_session/
EndSession == end_session

\* A caller of get_session_stats
SessionStats == get_session_stats

Init == InitService /\ args = PyNone /\ ret = PyNone

Next == StartSession \/ Chat \/ EndSession \/ SessionStats

Spec == Init /\ [][Next]_vars

(***************************************************************************)
(* process_message statement by statement: calls made from several threads *)
(* on the one ChatService. A step is one access to self.session_context or *)
(* self.conversation_history together with the local computation that      *)
(* leads to it; the steps of different threads interleave freely.          *)
(***************************************************************************)
\* What the backend does with a request: the outcomes above that it decides,
\* and "silent": it accepts the request and never sends a byte.
BackendBehaviours == {"ok", "ok_empty", "ok_not_dict", "status", "refused", "silent"}

\* requests.post called without a timeout: the call waits on a silent backend
\* for ever.
requests_post_without_timeout(behaviour) ==
  IF behaviour = "silent" THEN "pending" ELSE behaviour

\* requests.post(..., timeout=30) (lines 221-234): what the call makes of the
\* backend's behaviour; a silent backend ends in requests.exceptions.Timeout.
requests_post(behaviour) ==
  IF behaviour = "silent" THEN "timeout" ELSE behaviour

\* locals with name bound to value
Bind(locals, name, value) ==
  [ k \in DOMAIN locals \cup {name} |-> IF k = name THEN value ELSE locals[k] ]

\* Thread t moves to line with its locals as given.
Goto(t, line, locals) ==
  threads' = [threads EXCEPT ![t].pc = line, ![t].locals = locals]

\* Thread t's call returns result to its caller.
Returns(t, result) ==
  /\ threads' = [threads EXCEPT ![t].pc = "done",
                                ![t].locals = [ user_message |-> @.user_message,
                                                result |-> result ]]
  /\ response' = result
  /\ last_call' = [ method |-> "process_message",
                    user_message |-> threads[t].locals.user_message,
                    outcome |-> IF threads[t].backend = "none" THEN "none"
                                ELSE requests_post(threads[t].backend) ]

\* Thread t enters process_message(user_message).
Call(t, user_message) ==
  /\ threads[t].pc = "ready"
  /\ Goto(t, "L87", [user_message |-> user_message])
  /\ UNCHANGED << conversation_history, session_context, clock, response,
                  last_call, args, ret >>

\* Lines 87-91: the crisis level, and the write of crisis_detected.
L87_91(t) ==
  /\ threads[t].pc = "L87"
  /\ LET l == threads[t].locals
         crisis == Classified[l.user_message].crisis
     IN  IF crisis.kind = "raise"
           THEN /\ Goto(t, "L133", Bind(l, "e", crisis))
                /\ UNCHANGED session_context
           ELSE LET crisis_level == crisis.value
                    crisis_detected == CrisisDetected(crisis_level)
                IN  /\ session_context' =
                         [session_context EXCEPT !.crisis_detected = crisis_detected]
                    /\ Goto(t, "L94", Bind(Bind(l, "crisis_level", crisis_level),
                                           "crisis_detected", crisis_detected))
  /\ UNCHANGED << conversation_history, clock, response, last_call, args, ret >>

\* Lines 94-95: the emotional state, and its write.
L94_95(t) ==
  /\ threads[t].pc = "L94"
  /\ LET l == threads[t].locals
         emotional_state == Classified[l.user_message].emotion.value
     IN  /\ session_context' =
              [session_context EXCEPT !.emotional_state = emotional_state]
         /\ Goto(t, "L98", Bind(l, "emotional_state", emotional_state))
  /\ UNCHANGED << conversation_history, clock, response, last_call, args, ret >>

\* Lines 98-99: the therapy approach, and its write.
L98_99(t) ==
  /\ threads[t].pc = "L98"
  /\ LET l == threads[t].locals
         therapy_approach == _choose_therapy_approach(l.user_message, l.emotional_state,
                                                      l.crisis_detected)
     IN  /\ session_context' =
              [session_context EXCEPT !.therapy_approach = therapy_approach]
         /\ Goto(t, "L102", Bind(l, "therapy_approach", therapy_approach))
  /\ UNCHANGED << conversation_history, clock, response, last_call, args, ret >>

\* Line 102 (_build_therapeutic_prompt, lines 201-205): the read of the last
\* three exchanges of self.conversation_history that the prompt quotes.
L102(t) ==
  /\ threads[t].pc = "L102"
  /\ Goto(t, "L105", Bind(threads[t].locals, "recent_exchanges",
                          LastThree(conversation_history)))
  /\ UNCHANGED << conversation_history, session_context, clock, response,
                  last_call, args, ret >>

\* Line 105 (_generate_response, line 221): the request goes out; what the
\* backend does with it is the backend's choice.
L105_post(t) ==
  /\ threads[t].pc = "L105"
  /\ \E behaviour \in BackendBehaviours :
       threads' = [threads EXCEPT ![t].pc = "L221", ![t].backend = behaviour]
  /\ UNCHANGED << conversation_history, session_context, clock, response,
                  last_call, args, ret >>

\* Lines 221-245: requests.post returns or raises, and _generate_response
\* makes the reply of it. The thread stays here while the call is pending.
L221_245(t) ==
  /\ threads[t].pc = "L221"
  /\ requests_post(threads[t].backend) /= "pending"
  /\ LET l == threads[t].locals
         generated ==
           _generate_response(
             _build_therapeutic_prompt(l.recent_exchanges, l.user_message.s,
                                       l.emotional_state, l.therapy_approach,
                                       l.crisis_detected),
             requests_post(threads[t].backend))
     IN  IF generated.kind = "raise"
           THEN Goto(t, "L133", Bind(l, "e", generated))
           ELSE Goto(t, "L108", Bind(l, "ai_response", generated.value))
  /\ UNCHANGED << conversation_history, session_context, clock, response,
                  last_call, args, ret >>

\* Lines 108-116 storing the entry by rebuilding the list from the exchanges
\* read at line 202, instead of appending to the list as it is now.
L108_116_from_snapshot(t) ==
  /\ threads[t].pc = "L108"
  /\ LET l == threads[t].locals
         conversation_entry ==
           [ user_message |-> l.user_message.s,
             ai_response |-> l.ai_response,
             emotional_state |-> EmotionalState[l.emotional_state],
             therapy_approach |-> TherapyApproach[l.therapy_approach],
             crisis_level |-> l.crisis_level ]
     IN  /\ conversation_history' =
              StoreConversation(l.recent_exchanges, conversation_entry)
         /\ Goto(t, "L119", Bind(l, "conversation_entry", conversation_entry))
  /\ UNCHANGED << session_context, clock, response, last_call, args, ret >>

\* Lines 108-116: the conversation entry, and its append.
L108_116(t) ==
  /\ threads[t].pc = "L108"
  /\ LET l == threads[t].locals
         conversation_entry ==
           [ user_message |-> l.user_message.s,
             ai_response |-> l.ai_response,
             emotional_state |-> EmotionalState[l.emotional_state],
             therapy_approach |-> TherapyApproach[l.therapy_approach],
             crisis_level |-> l.crisis_level ]
     IN  /\ conversation_history' =
              StoreConversation(conversation_history, conversation_entry)
         /\ Goto(t, "L119", Bind(l, "conversation_entry", conversation_entry))
  /\ UNCHANGED << session_context, clock, response, last_call, args, ret >>

\* Lines 119-131: the response, with session_start read from the context.
L119_131(t) ==
  /\ threads[t].pc = "L119"
  /\ LET l == threads[t].locals
     IN  Returns(t, PrepareResponse(l.ai_response, l.emotional_state,
                                    l.therapy_approach, l.crisis_level,
                                    session_context))
  /\ UNCHANGED << conversation_history, session_context, clock, args, ret >>

\* Lines 133-139: the except block.
L133_139(t) ==
  /\ threads[t].pc = "L133"
  /\ Returns(t, HandleException(threads[t].locals.e))
  /\ UNCHANGED << conversation_history, session_context, clock, args, ret >>

\* The next statement of the call thread t is in.
Run(t) ==
  \/ L87_91(t)
  \/ L94_95(t)
  \/ L98_99(t)
  \/ L102(t)
  \/ L105_post(t)
  \/ L221_245(t)
  \/ L108_116(t)
  \/ L119_131(t)
  \/ L133_139(t)

\* A request arrives for thread t.
Request(t) == \E user_message \in Messages : Call(t, user_message)

NextThreads == \E t \in Threads : Request(t) \/ Run(t)

SpecThreads == Init /\ [][NextThreads]_vars

\* Every thread inside a call keeps running, and a request that is out comes
\* back as soon as requests.post can return or raise.
FairSpecThreads == SpecThreads /\ \A t \in Threads : WF_vars(Run(t))

(***************************************************************************)
(* Long conversations: one client posting message after message, so that   *)
(* the history outgrows the three exchanges the prompt quotes.             *)
(***************************************************************************)
\* Most conversation entries recorded in a long conversation.
MaxWindowTurns == 5

\* Two messages that differ in every classification.
WindowMessages ==
  { PyStr("I want to kill myself"),
    PyStr("I'm feeling really anxious about my presentation") }

\* The backend answering and the backend timing out: two different replies.
WindowOutcomes == {"ok", "timeout"}

ChatWindow ==
  \E user_message \in WindowMessages, outcome \in WindowOutcomes :
     /\ Len(conversation_history) < MaxWindowTurns
     /\ CallProcessMessage(user_message, PyNone, outcome)

NextWindow == ChatWindow

SpecWindow == Init /\ [][NextWindow]_vars

(***************************************************************************)
(* The library functions on their own: the inputs are drawn in the initial *)
(* state and one step applies the function.                                *)
(***************************************************************************)
\* Most fragments a text is made of.
MaxFragments == 2

\* Pieces of user text: every configured crisis phrase, some in other
\* letter cases or inside a longer word, and neutral filler.
Fragments ==
  { "kill myself", "suicide", "end my life", "not worth living", "better off dead",
    "suicide plan", "Kill Me", "die", "ending it all", "can't go on",
    "DIE", "on a Diet",
    "hopeless", "Worthless", "pointless", "give up", "can't take it anymore",
    "want to disappear", "tired of living", "NOTHING MATTERS", "no point",
    "cut myself", "hurt myself", "Self Harm", "cutting", "burning myself",
    "punish myself", "deserve pain", "physical pain",
    " ", "I feel ", "tired today", "di", "e", "no", " point" }

RECURSIVE TextsOf(_)
TextsOf(n) ==
  IF n = 0 THEN {""}
  ELSE LET shorter == TextsOf(n - 1)
       IN  shorter \cup {t \o f : t \in shorter, f \in Fragments}

Texts == TextsOf(MaxFragments)

InitCrisis ==
  /\ InitService
  /\ args \in {[text |-> PyStr(t)] : t \in Texts}
  /\ ret = PyNone

DetectCrisisLevel ==
  /\ ret = PyNone
  /\ ret' = detect_crisis_level(args.text)
  /\ UNCHANGED << conversation_history, session_context, clock, response,
                  last_call, args, threads >>

NextCrisis == DetectCrisisLevel

SpecCrisis == InitCrisis /\ [][NextCrisis]_vars

\* Both crisis detectors applied to one text: args.text is any of Texts or a
\* value that is not a str.
InitDetectors ==
  /\ InitService
  /\ args \in {[text |-> v] : v \in {PyStr(t) : t \in Texts} \cup {PyInt(5)}}
  /\ ret = PyNone

DetectBoth ==
  /\ ret = PyNone
  /\ ret' = [ therapy_prompts  |-> detect_crisis_level(args.text),
              crisis_detection |-> crisis_detection_detect_crisis_level(args.text) ]
  /\ UNCHANGED << conversation_history, session_context, clock, response,
                  last_call, args, threads >>

NextDetectors == DetectBoth

SpecDetectors == InitDetectors /\ [][NextDetectors]_vars

\* Pieces of user text: every keyword of the five groups, some in other
\* letter cases or inside a longer word, and neutral filler.
EmotionFragments ==
  { "anxious", "Worried", "nervous", "STRESS", "panic", "fear", "scared",
    "sad", "depressed", "hopeless", "worthless", "Tired", "exhausted", "empty",
    "angry", "furious", "mad", "FRUSTRATED", "irritated", "rage",
    "overwhelmed", "Too Much", "can't handle", "drowning", "swamped",
    "hope", "better", "Improving", "progress", "optimistic", "positive",
    "Madrid", "garage", " ", "I feel ", "ma", "d", "too", " much" }

RECURSIVE EmotionTextsOf(_)
EmotionTextsOf(n) ==
  IF n = 0 THEN {""}
  ELSE LET shorter == EmotionTextsOf(n - 1)
       IN  shorter \cup {t \o f : t \in shorter, f \in EmotionFragments}

EmotionTexts == EmotionTextsOf(MaxFragments)

InitEmotion ==
  /\ InitService
  /\ args \in {[message |-> PyStr(t)] : t \in EmotionTexts}
  /\ ret = PyNone

DetectEmotionalState ==
  /\ ret = PyNone
  /\ ret' = _detect_emotional_state(args.message)
  /\ UNCHANGED << conversation_history, session_context, clock, response,
                  last_call, args, threads >>

NextEmotion == DetectEmotionalState

SpecEmotion == InitEmotion /\ [][NextEmotion]_vars

InitApproach ==
  /\ InitService
  /\ args \in [ message : Messages,
                emotional_state : DOMAIN EmotionalState,
                crisis_detected : BOOLEAN ]
  /\ ret = PyNone

ChooseTherapyApproach ==
  /\ ret = PyNone
  /\ ret' = Return(_choose_therapy_approach(args.message, args.emotional_state,
                                            args.crisis_detected))
  /\ UNCHANGED << conversation_history, session_context, clock, response,
                  last_call, args, threads >>

NextApproach == ChooseTherapyApproach

SpecApproach == InitApproach /\ [][NextApproach]_vars

\* Category arguments: every attribute get_prompt can resolve, and names
\* that are no attribute.
Categories ==
  { "base_system", "base_system_prompt", "conversation_starters",
    "therapeutic_techniques", "crisis_prompts", "assessment_prompts",
    "emotional_responses", "closing_prompts", "get_prompt", "__dict__",
    "__doc__", "no_such_category", "" }

\* The keys of the template tables that are strings.
TemplateKeys ==
  UNION { {d.items[i][1].s : i \in {j \in 1..Len(d.items) : d.items[j][1].type = "str"}} :
            d \in {conversation_starters, crisis_prompts, assessment_prompts,
                   closing_prompts}
                  \cup {therapeutic_techniques.items[i][2] :
                          i \in 1..Len(therapeutic_techniques.items)} }

\* Subcategory arguments: none, every template key, and other strings.
Subcategories ==
  {PyNone}
  \cup {PyStr(k) : k \in TemplateKeys \cup {"", "no_such_subcategory",
                                            "conversation_starters",
                                            "base_system_prompt"}}

\* Keyword arguments: none, one placeholder, one of two, all of them.
KeywordArguments ==
  { << >>,
    [negative_thought |-> "I'm not good enough"],
    [emotion |-> "sad"],
    [negative_thought |-> "a", catastrophic_thought |-> "b", action |-> "c",
     emotion |-> "d", situation |-> "e", reflection |-> "f", summary |-> "g",
     number |-> "7", current_number |-> "4", technique |-> "h"] }

InitPrompt ==
  /\ InitService
  /\ args \in [ category : Categories, subcategory : Subcategories,
                kwargs : KeywordArguments, rnd : RandomDraws ]
  /\ ret = PyNone

GetPrompt ==
  /\ ret = PyNone
  /\ ret' = get_prompt(args.category, args.subcategory, args.kwargs, args.rnd)
  /\ UNCHANGED << conversation_history, session_context, clock, response,
                  last_call, args, threads >>

NextPrompt == GetPrompt

SpecPrompt == InitPrompt /\ [][NextPrompt]_vars

(***************************************************************************)
(* TherapyPrompts.get_therapeutic_response as a function of its arguments  *)
(* and of the random draw.                                                 *)
(***************************************************************************)

\* Approach arguments: the members of TherapyApproach.
Approaches == DOMAIN TherapyApproach

\* Technique arguments: every technique of every approach, and other strings.
Techniques ==
  UNION { {d.items[i][1].s : i \in 1..Len(d.items)} :
            d \in {therapeutic_techniques.items[i][2] :
                     i \in 1..Len(therapeutic_techniques.items)} }
  \cup {"", "no_such_technique"}

InitTechnique ==
  /\ InitService
  /\ args \in [ approach : Approaches, technique : Techniques,
                kwargs : KeywordArguments, rnd : RandomDraws ]
  /\ ret = PyNone

GetTherapeuticResponse ==
  /\ ret = PyNone
  /\ ret' = get_therapeutic_response(args.approach, args.technique,
                                     args.kwargs, args.rnd)
  /\ UNCHANGED << conversation_history, session_context, clock, response,
                  last_call, args, threads >>

NextTechnique == GetTherapeuticResponse

SpecTechnique == InitTechnique /\ [][NextTechnique]_vars

(***************************************************************************)
(* ChatService._build_therapeutic_prompt as a function of its arguments    *)
(* and of the history.                                                     *)
(***************************************************************************)
\* Most entries of a history handed to the prompt builder.
MaxQuotedTurns == 4

\* User texts: plain, empty, with braces, with the markers of the prompt,
\* with the text of the crisis banner.
UserTexts ==
  { "I'm feeling really anxious about my presentation",
    "",
    "{negative_thought}",
    "User: hi\nAlex: ok",
    "(!) CRISIS INDICATORS DETECTED - PRIORITIZE SAFETY ASSESSMENT (!)" }

\* Two conversation entries as process_message records them (lines 108-115).
RecordedTurns ==
  { [ user_message |-> "I want to kill myself",
      ai_response |-> ModelReply,
      emotional_state |-> "neutral",
      therapy_approach |-> "crisis_intervention",
      crisis_level |-> "high" ],
    [ user_message |-> "I feel sad today",
      ai_response |-> "I'm having trouble connecting right now. Please try again.",
      emotional_state |-> "depressed",
      therapy_approach |-> "humanistic_therapy",
      crisis_level |-> "none" ] }

Histories == UNION { [1..n -> RecordedTurns] : n \in 0..MaxQuotedTurns }

InitCompose ==
  /\ InitService
  /\ args \in [ history : Histories, user_message : UserTexts,
                emotional_state : DOMAIN EmotionalState,
                therapy_approach : DOMAIN TherapyApproach,
                crisis_detected : BOOLEAN ]
  /\ ret = PyNone

BuildTherapeuticPrompt ==
  /\ ret = PyNone
  /\ ret' = Return(PyStr(_build_therapeutic_prompt(
                 args.history, args.user_message, args.emotional_state,
                 args.therapy_approach, args.crisis_detected)))
  /\ UNCHANGED << conversation_history, session_context, clock, response,
                  last_call, args, threads >>

NextCompose == BuildTherapeuticPrompt

SpecCompose == InitCompose /\ [][NextCompose]_vars

(***************************************************************************)
(* Properties                                                              *)
(***************************************************************************)
\* The call that returned last was process_message.
Processed == last_call.method = "process_message"

\* The backend behaviours in which the call succeeds (status 200 with a
\* JSON object), is unavailable (other status, connection refused) or
\* times out.
AnsweredOrFailed == {"ok", "ok_empty", "status", "refused", "timeout"}

\* C1: after start_session() returns, the session history is empty, whatever
\* operations came before: no entry recorded by process_message before the
\* start is still in the history after it.
C1_HistoryEmptyAfterStart ==
  last_call.method = "start_session" => conversation_history = << >>

\* C2: for every message that detect_crisis_level classifies as high, the
\* response of process_message carries crisis_level "high", therapy_approach
\* "crisis_intervention" and the crisis resources with hotline "988",
\* whether the backend call succeeds, is unavailable or times out.
C2_HighCrisisResponse ==
  ( /\ Processed
    /\ detect_crisis_level(last_call.user_message) = Return("high")
    /\ last_call.outcome \in AnsweredOrFailed )
  => /\ {"crisis_level", "therapy_approach", "crisis_resources"} \subseteq DOMAIN response
     /\ response.crisis_level = "high"
     /\ response.therapy_approach = "crisis_intervention"
     /\ response.crisis_resources.emergency_contacts.national_suicide_prevention = "988"

\* A high-risk message was processed while the backend timed out, and the
\* response carries the crisis resources.
C2_Witness ==
  /\ Processed
  /\ last_call.user_message = PyStr("I want to kill myself")
  /\ last_call.outcome = "timeout"
  /\ "crisis_resources" \in DOMAIN response
  /\ response.crisis_level = "high"

\* The inputs of process_message on which an exception is raised inside it:
\* a message that is not a string, or a backend answer that is no JSON object.
RaisesInside(call) ==
  \/ call.user_message.type /= "str"
  \/ call.outcome = "ok_not_dict"

\* C3: in every state of the service and for every input, process_message
\* returns a structured response and lets no exception escape; an exception
\* raised inside it yields the degraded response: the fixed message,
\* crisis_level "unknown" and the error detail.
C3_NoExceptionEscapes ==
  Processed =>
    /\ "exception" \notin DOMAIN response
    /\ {"message", "crisis_level"} \subseteq DOMAIN response
    /\ RaisesInside(last_call) =>
         /\ DOMAIN response = {"message", "error", "crisis_level"}
         /\ response.message = DegradedMessage
         /\ response.crisis_level = "unknown"
         /\ response.error /= ""

\* A message that is not a string was posted before any session was started
\* and got the degraded response.
C3_Witness ==
  /\ Processed
  /\ clock = 0
  /\ last_call.user_message = PyInt(5)
  /\ "error" \in DOMAIN response
  /\ response.crisis_level = "unknown"

\* Two one-character strings are the same letter up to case.
SameLetter(a, b) ==
  \/ a = b
  \/ a \in DOMAIN UpperToLower /\ UpperToLower[a] = b
  \/ b \in DOMAIN UpperToLower /\ UpperToLower[b] = a

\* phrase occurs in text as a plain substring, letter case ignored
OccursIgnoringCase(phrase, text) ==
  \E i \in 0..(Len(text) - Len(phrase)) :
     \A j \in 1..Len(phrase) :
        SameLetter(SubSeq(text, i + j, i + j), SubSeq(phrase, j, j))

HighPhrases ==
  {CRISIS_KEYWORDS.high_risk[i] : i \in 1..Len(CRISIS_KEYWORDS.high_risk)}
  \cup {CRISIS_KEYWORDS.self_harm[i] : i \in 1..Len(CRISIS_KEYWORDS.self_harm)}

MediumPhrases ==
  {CRISIS_KEYWORDS.medium_risk[i] : i \in 1..Len(CRISIS_KEYWORDS.medium_risk)}

HasHighPhrase(text) == \E p \in HighPhrases : OccursIgnoringCase(p, text)

HasMediumPhrase(text) == \E p \in MediumPhrases : OccursIgnoringCase(p, text)

\* detect_crisis_level has been applied to the text of args.
CrisisClassified == ret /= PyNone

\* C4: detect_crisis_level returns "high" for every text that contains, in
\* any letter case and as a plain substring (also inside a longer word), a
\* high-risk or self-harm phrase, whatever else the text contains.
C4_HighPhraseGivesHigh ==
  (CrisisClassified /\ HasHighPhrase(args.text.s)) => ret = Return("high")

\* A text with "die" in capitals inside a longer word, next to a
\* medium-risk phrase, was classified high.
C4_Witness ==
  /\ CrisisClassified
  /\ args.text.s = "hopeless" \o "on a Diet"
  /\ ret = Return("high")

\* C5: detect_crisis_level returns "medium" for every text that contains a
\* medium-risk phrase and no high-risk and no self-harm phrase.
C5_MediumPhraseGivesMedium ==
  (CrisisClassified /\ HasMediumPhrase(args.text.s) /\ ~HasHighPhrase(args.text.s))
  => ret = Return("medium")

\* A text with a medium-risk phrase in capitals and no high-risk phrase was
\* classified medium.
C5_Witness ==
  /\ CrisisClassified
  /\ args.text.s = "I feel " \o "NOTHING MATTERS"
  /\ ~HasHighPhrase(args.text.s)
  /\ ret = Return("medium")

\* C6: detect_crisis_level returns "none" for every text that contains none
\* of the configured phrases, the empty text included, and it always returns
\* one of "high", "medium", "none".
C6_NoPhraseGivesNone ==
  CrisisClassified =>
    /\ ret \in {Return("high"), Return("medium"), Return("none")}
    /\ (~HasHighPhrase(args.text.s) /\ ~HasMediumPhrase(args.text.s))
         => ret = Return("none")

\* The empty text was classified none.
C6_Witness ==
  /\ CrisisClassified
  /\ args.text.s = ""
  /\ ret = Return("none")

\* The decision table of the approach selection.
DecisionTable ==
  [ crisis_detected \in BOOLEAN, emotional_state \in DOMAIN EmotionalState |->
      IF crisis_detected THEN "CRISIS_INTERVENTION"
      ELSE CASE emotional_state = "ANXIOUS" -> "CBT"
             [] emotional_state = "DEPRESSED" -> "HUMANISTIC"
             [] emotional_state = "OVERWHELMED" -> "SOLUTION_FOCUSED"
             [] emotional_state = "ANGRY" -> "DBT"
             [] emotional_state \in {"NEUTRAL", "HOPEFUL", "CRISIS"} -> "CBT" ]

\* C7: _choose_therapy_approach is total and implements the decision table:
\* crisis_intervention whenever a crisis is detected; otherwise CBT for
\* anxious, humanistic for depressed, solution_focused for overwhelmed, DBT
\* for angry and CBT for neutral, hopeful and crisis.
C7_DecisionTable ==
  ret /= PyNone =>
    /\ ret.kind = "return"
    /\ ret.value \in DOMAIN TherapyApproach
    /\ ret.value = DecisionTable[args.crisis_detected, args.emotional_state]

\* The approach was chosen for an angry user without crisis: DBT.
C7_Witness ==
  /\ ret /= PyNone
  /\ args.emotional_state = "ANGRY"
  /\ ~args.crisis_detected
  /\ ret = Return("DBT")

\* C8: the response of process_message has a crisis_resources key only when
\* the crisis level of the message is "high"; for a message classified
\* "none" or "medium", and in the degraded response, the key is absent.
C8_ResourcesOnlyWhenHigh ==
  (Processed /\ "crisis_resources" \in DOMAIN response)
  => /\ detect_crisis_level(last_call.user_message) = Return("high")
     /\ response.crisis_level = "high"

\* A medium-risk message was processed and answered without crisis resources.
C8_Witness ==
  /\ Processed
  /\ last_call.user_message = PyStr("I feel hopeless and want to give up")
  /\ "crisis_level" \in DOMAIN response
  /\ response.crisis_level = "medium"
  /\ "crisis_resources" \notin DOMAIN response

\* C9: end_session() called on a session in which no message has been
\* processed since its start_session(), whatever preceded that start,
\* reports the summary "Session ended without any conversation." and
\* total_exchanges = 0.  Stated for the end_session() that directly follows
\* the start_session().
C9_EmptySessionSummary ==
  [][ (last_call.method = "start_session" /\ last_call'.method = "end_session")
      => /\ response'.session_summary = "Session ended without any conversation."
         /\ response'.total_exchanges = 0 ]_vars

\* get_prompt has been applied to the arguments of args.
Prompted == ret /= PyNone

\* C10: get_prompt never raises: for every category, subcategory and keyword
\* arguments (strings, the subcategory possibly absent), unknown categories
\* and subcategories, a category without subcategory and templates whose
\* placeholders are not supplied included, it returns a nonempty string.
C10_GetPromptNeverRaises ==
  Prompted =>
    /\ ret.kind = "return"
    /\ ret.value.type = "str"
    /\ ret.value.s /= ""

\* A template with a placeholder was selected without a value for it, and a
\* string came back.
C10_Witness ==
  /\ Prompted
  /\ args.category = "therapeutic_techniques"
  /\ args.subcategory = PyStr("thought_challenging")
  /\ args.kwargs = << >>
  /\ args.rnd = 0
  /\ ret.kind = "return"

(***************************************************************************)
(* The fallbacks of get_prompt (SpecPrompt).                               *)
(***************************************************************************)

\* The category names no attribute of the object.
CategoryUnresolved ==
  /\ args.category /= "base_system"
  /\ GetAttr(args.category).kind = "raise"

\* The category names a table.
CategoryIsTable ==
  /\ args.category /= "base_system"
  /\ GetAttr(args.category).kind = "return"
  /\ GetAttr(args.category).value.type = "dict"

\* A subcategory is asked of a table that has it neither as a key nor as a
\* key of a table nested in it.
SubcategoryUnresolved ==
  /\ CategoryIsTable
  /\ Truthy(args.subcategory)
  /\ LET table == GetAttr(args.category).value
     IN  /\ ~ DictHas(table, args.subcategory)
         /\ \A i \in 1..Len(table.items) :
              table.items[i][2].type = "dict"
                => ~ DictHas(table.items[i][2], args.subcategory)

\* A subcategory is asked of an attribute that is no table.
SubcategoryOfNoTable ==
  /\ args.category /= "base_system"
  /\ GetAttr(args.category).kind = "return"
  /\ GetAttr(args.category).value.type /= "dict"
  /\ Truthy(args.subcategory)

\* What the lookup bound to prompts, when it bound something.
LookedUp == ResolvePrompts(GetAttr(args.category).value, args.subcategory).value

LookupBinds ==
  /\ args.category /= "base_system"
  /\ ~ CategoryUnresolved
  /\ ~ SubcategoryUnresolved
  /\ ~ SubcategoryOfNoTable

\* The lookup found a template or a list of templates.
TemplateFound == LookupBinds /\ LookedUp.type \in {"list", "str"}

\* The lookup found something that is no template (a table, a method).
NoTemplateFound == LookupBinds /\ LookedUp.type \notin {"list", "str"}

PlaceholderNames == UNION {DOMAIN k : k \in KeywordArguments}

\* The template the random draw selects names a placeholder that the keyword
\* arguments do not supply.
SubstitutionFails ==
  /\ TemplateFound
  /\ LET selected == IF LookedUp.type = "list"
                       THEN LookedUp.elems[(args.rnd % Len(LookedUp.elems)) + 1]
                       ELSE LookedUp.s
     IN  \E n \in PlaceholderNames \ DOMAIN args.kwargs :
            Contains(selected, "{" \o n \o "}")

ReturnsNotFound ==
  ret = Return(PyStr("I'm here to support you. What would you like to talk about?"))

ReturnsListen ==
  ret = Return(PyStr("I'm here to listen and support you. What's on your mind?"))

\* C11 as stated: get_prompt returns the not-found fallback whenever the
\* category or the subcategory cannot be resolved, and returns the other
\* fallback only when a template was found and its placeholder substitution
\* failed.
C11_TwoTierFallback ==
  Prompted =>
    /\ (CategoryUnresolved \/ SubcategoryUnresolved) => ReturnsNotFound
    /\ ReturnsListen => (TemplateFound /\ SubstitutionFails)

\* C11, amended: get_prompt returns the not-found fallback exactly when the
\* category is a table and the subcategory is a key neither of the table nor
\* of a table nested in it; it returns the other fallback exactly when the
\* lookup or the substitution raises: the category is no attribute, a
\* subcategory is asked of an attribute that is no table, the value found is
\* no template (a category given without subcategory), or the selected
\* template names a placeholder that is not supplied.
C11_FallbackCases ==
  Prompted =>
    /\ ReturnsNotFound <=> SubcategoryUnresolved
    /\ ReturnsListen <=> \/ CategoryUnresolved
                         \/ SubcategoryOfNoTable
                         \/ NoTemplateFound
                         \/ SubstitutionFails

\* An unknown subcategory of a known table came back as the not-found
\* fallback.
C11_Witness ==
  /\ Prompted
  /\ args.category = "conversation_starters"
  /\ args.subcategory = PyStr("no_such_subcategory")
  /\ SubcategoryUnresolved
  /\ ReturnsNotFound

(***************************************************************************)
(* get_therapeutic_response (SpecTechnique).                               *)
(***************************************************************************)

Responded == ret /= PyNone

\* C12: get_therapeutic_response called with a known approach and technique
\* and a value for the template's placeholder (CBT, "thought_challenging",
\* negative_thought = v) returns a string that contains v, whichever
\* alternative the random selection picks.
C12_ResponseContainsValue ==
  ( /\ Responded
    /\ args.approach = "CBT"
    /\ args.technique = "thought_challenging"
    /\ "negative_thought" \in DOMAIN args.kwargs )
  => /\ ret.kind = "return"
     /\ ret.value.type = "str"
     /\ Contains(ret.value.s, args.kwargs.negative_thought)

(***************************************************************************)
(* The conversation window of the prompt (SpecWindow).                     *)
(***************************************************************************)

\* The number of places where keyword occurs in text.
Occurrences(text, keyword) ==
  Cardinality({ i \in 1..(Len(text) - Len(keyword) + 1) :
                  SubSeq(text, i, i + Len(keyword) - 1) = keyword })

\* One recorded turn as the prompt quotes it.
Quoted(turn) ==
  "User: " \o turn.user_message \o "\nAlex: " \o turn.ai_response \o "\n\n"

\* The prompt quotes exactly the turns last3 (oldest first) and then message.
QuotesExactly(text, last3, message) ==
  \A t \in {text} :
    /\ \E block \in { "CURRENT CONVERSATION CONTEXT:\n"
                       \o Quoted(last3[1]) \o Quoted(last3[2]) \o Quoted(last3[3])
                       \o "User: " \o message \o "\n\nTHERAPEUTIC FOCUS: " } :
         Contains(t, block)
    /\ Occurrences(t, "User: ") = 4
    /\ Occurrences(t, "Alex: ") = 3

\* C13: once more than 3 turns have been appended to the history, the prompt
\* that process_message composes for the next message quotes the
\* user/assistant pairs of exactly the 3 most recent turns, oldest of the
\* three first, followed by the current user message, and quotes no older
\* turn.
C13_HistoryWindow ==
  [][ ( /\ last_call'.method = "process_message"
        /\ Len(conversation_history) > 3 )
      => LET n == Len(conversation_history)
         IN  QuotesExactly(prompt(conversation_history, last_call'.user_message),
                           << conversation_history[n - 2],
                              conversation_history[n - 1],
                              conversation_history[n] >>,
                           last_call'.user_message.s) ]_vars

\* A message was processed on a history of four turns whose oldest turn
\* differs from the three after it in the user's and in the assistant's text.
C13_Witness ==
  /\ last_call.method = "process_message"
  /\ Len(conversation_history) = 5
  /\ \A i \in 2..5 :
       /\ conversation_history[i].user_message /= conversation_history[1].user_message
       /\ conversation_history[i].ai_response /= conversation_history[1].ai_response

(***************************************************************************)
(* The composed prompt (SpecCompose).                                      *)
(***************************************************************************)

Composed == ret /= PyNone

\* The raw values of the two enumerations, as the source declares them.
RawValue ==
  [ NEUTRAL |-> "neutral", ANXIOUS |-> "anxious", DEPRESSED |-> "depressed",
    ANGRY |-> "angry", OVERWHELMED |-> "overwhelmed", HOPEFUL |-> "hopeful",
    CRISIS |-> "crisis",
    CBT |-> "cognitive_behavioral_therapy",
    DBT |-> "dialectical_behavior_therapy",
    HUMANISTIC |-> "humanistic_therapy",
    SOLUTION_FOCUSED |-> "solution_focused_therapy",
    MINDFULNESS |-> "mindfulness_based_therapy",
    CRISIS_INTERVENTION |-> "crisis_intervention" ]

\* C14: for every user text, every emotional state, every therapy approach
\* of the enumeration and every history, the composed prompt contains the
\* literal current user text, the emotional state's raw value and the
\* therapy approach's raw value: the text as the last "User: " line of the
\* conversation context, each value on its labelled line.
C14_PromptContainsInputs ==
  Composed =>
    /\ ret.kind = "return"
    /\ ret.value.type = "str"
    /\ \A t \in {ret.value.s} :
         /\ Contains(t, "User: " \o args.user_message \o "\n\nTHERAPEUTIC FOCUS: ")
         /\ Contains(t, "CURRENT EMOTIONAL STATE: "
                        \o RawValue[args.emotional_state] \o "\n")
         /\ Contains(t, "RECOMMENDED THERAPEUTIC APPROACH: "
                        \o RawValue[args.therapy_approach] \o "\n\n")

\* A prompt was composed for a text with braces on a history longer than the
\* window, under a state and an approach the persona text does not name.
C14_Witness ==
  /\ Composed
  /\ args.user_message = "{negative_thought}"
  /\ Len(args.history) = 4
  /\ args.emotional_state = "OVERWHELMED"
  /\ args.therapy_approach = "MINDFULNESS"
  /\ ret.kind = "return"
  /\ Contains(ret.value.s, "User: {negative_thought}")

(***************************************************************************)
(* The service with a failing backend (Spec).                              *)
(***************************************************************************)

\* The backend behaviours in which the call fails or times out.
BackendFailures == {"status", "refused", "timeout"}

\* The apology _generate_response returns for each of them.
Apology ==
  [ status |-> "I'm having trouble connecting right now. Please try again.",
    refused |-> "I'm unable to connect to my language model right now. Please try again later.",
    timeout |-> "I'm unable to connect to my language model right now. Please try again later." ]

\* What the classifiers and the selection rule give for each text message
\* of Messages.
ExpectedLabels ==
  [ m \in {msg \in Messages : msg.type = "str"} |->
      CASE m.s = "I want to kill myself" ->
             [ emotional_state |-> "neutral",
               therapy_approach |-> "crisis_intervention",
               crisis_level |-> "high" ]
        [] m.s = "I feel hopeless and want to give up" ->
             [ emotional_state |-> "depressed",
               therapy_approach |-> "crisis_intervention",
               crisis_level |-> "medium" ]
        [] m.s = "I'm feeling really anxious about my presentation" ->
             [ emotional_state |-> "anxious",
               therapy_approach |-> "cognitive_behavioral_therapy",
               crisis_level |-> "none" ]
        [] m.s = "" ->
             [ emotional_state |-> "neutral",
               therapy_approach |-> "cognitive_behavioral_therapy",
               crisis_level |-> "none" ] ]

\* C15: when the backend call fails (connection refused, a status other than
\* success) or times out, process_message does not degrade: it returns the
\* normal structured response with the message's real emotional_state,
\* therapy_approach and crisis_level and with the fixed apology of that
\* failure as message, and the last entry of the history holds the message
\* and that apology.
C15_BackendFailureIsAnswered ==
  ( /\ Processed
    /\ last_call.user_message.type = "str"
    /\ last_call.outcome \in BackendFailures )
  => LET expected == ExpectedLabels[last_call.user_message]
         apology == Apology[last_call.outcome]
     IN  /\ "exception" \notin DOMAIN response
         /\ "error" \notin DOMAIN response
         /\ {"message", "emotional_state", "therapy_approach", "crisis_level",
             "session_id"} \subseteq DOMAIN response
         /\ response.message = apology
         /\ response.emotional_state = expected.emotional_state
         /\ response.therapy_approach = expected.therapy_approach
         /\ response.crisis_level = expected.crisis_level
         /\ Len(conversation_history) > 0
         /\ LET turn == conversation_history[Len(conversation_history)]
            IN  /\ turn.user_message = last_call.user_message.s
                /\ turn.ai_response = apology
                /\ turn.emotional_state = expected.emotional_state
                /\ turn.therapy_approach = expected.therapy_approach
                /\ turn.crisis_level = expected.crisis_level

\* The backend answered the second message of a conversation with an error
\* status, and the apology is in the response and in the second entry.
C15_Witness ==
  /\ Processed
  /\ last_call.outcome = "status"
  /\ last_call.user_message = PyStr("I feel hopeless and want to give up")
  /\ Len(conversation_history) = 2
  /\ conversation_history[1].ai_response = ModelReply
  /\ conversation_history[2].ai_response = Apology["status"]
  /\ "message" \in DOMAIN response
  /\ response.message = Apology["status"]

(***************************************************************************)
(* The state after start_session (Spec).                                   *)
(***************************************************************************)

\* The 'first_session' conversation starters (therapy_prompts.py 83-87).
FirstSessionStarters ==
  { "Hello, I'm Alex, your AI mental health counselor. I'm here to provide a safe, supportive space for you to share what's on your mind. What would you like to talk about today?",
    "Welcome! I'm glad you decided to reach out. Taking this step shows real courage. What's been going on that made you want to connect today?",
    "Hi there. I'm Alex, and I'm here to listen and support you. There's no pressure to share anything you're not comfortable with. What feels most important to discuss right now?" }

\* C16: after start_session(user_id), from any prior state, the context's
\* current emotional_state is neutral, its therapy_approach is CBT and
\* crisis_detected is false, the response reports those two values, and the
\* returned welcome message is one of the 'first_session' conversation
\* starters, never a fallback string.
C16_StartResetsContext ==
  last_call.method = "start_session"
  => /\ session_context.emotional_state = "NEUTRAL"
     /\ session_context.therapy_approach = "CBT"
     /\ session_context.crisis_detected = FALSE
     /\ {"message", "emotional_state", "therapy_approach"} \subseteq DOMAIN response
     /\ response.emotional_state = "neutral"
     /\ response.therapy_approach = "cognitive_behavioral_therapy"
     /\ response.message \in FirstSessionStarters

\* A session was started for a user right after a high-risk message had been
\* processed without any session, and the context is back to its defaults.
C16_Witness ==
  /\ last_call = [method |-> "start_session", user_id |-> PyStr("user123")]
  /\ Len(conversation_history) = 1
  /\ conversation_history[1].crisis_level = "high"
  /\ session_context.crisis_detected = FALSE
  /\ "message" \in DOMAIN response
  /\ response.message \in FirstSessionStarters

(***************************************************************************)
(* Sessions and the prompt (Spec).                                         *)
(***************************************************************************)

\* C17: no cross-session carryover: the prompt sent to the backend for a
\* message depends only on that message and on the turns processed since the
\* most recent start_session(), and no text of a turn processed before that
\* start appears in it, also when the earlier session belonged to another
\* user_id.  Stated for the message that directly follows a start_session():
\* its prompt is the one composed on an empty history.
C17_NoCrossSessionCarryover ==
  last_call.method = "start_session"
  => \A m \in {msg \in Messages : msg.type = "str"} :
        prompt(conversation_history, m) = prompt(<< >>, m)

(***************************************************************************)
(* The turns of the history (Spec).                                        *)
(***************************************************************************)

\* The response in the next state is a normal one: not the degraded response
\* and not an escaped exception.
NormalResponseNext ==
  /\ "error" \notin DOMAIN response'
  /\ "exception" \notin DOMAIN response'

\* C18: after every process_message call that returns a non-degraded
\* response, the history has grown by exactly one Turn placed last, the
\* context's current emotional_state and therapy_approach equal that Turn's
\* values, and crisis_detected is true exactly when that Turn's crisis_level
\* is medium or high, whatever the earlier turns hold.
C18_ContextFollowsLastTurn ==
  [][ (last_call'.method = "process_message" /\ NormalResponseNext)
      => /\ Len(conversation_history') = Len(conversation_history) + 1
         /\ SubSeq(conversation_history', 1, Len(conversation_history))
              = conversation_history
         /\ LET turn == conversation_history'[Len(conversation_history')]
            IN  /\ RawValue[session_context'.emotional_state] = turn.emotional_state
                /\ RawValue[session_context'.therapy_approach] = turn.therapy_approach
                /\ session_context'.crisis_detected
                     <=> turn.crisis_level \in {"medium", "high"}
                /\ turn.user_message = last_call'.user_message.s
                /\ turn.ai_response = response'.message ]_vars

\* A message without risk was processed after a high-risk one: the context
\* shows the second turn's values, not the first's.
C18_Witness ==
  /\ Processed
  /\ "error" \notin DOMAIN response
  /\ Len(conversation_history) = 2
  /\ conversation_history[1].crisis_level = "high"
  /\ conversation_history[1].therapy_approach = "crisis_intervention"
  /\ conversation_history[2].crisis_level = "none"
  /\ session_context.crisis_detected = FALSE
  /\ session_context.emotional_state = "ANXIOUS"
  /\ session_context.therapy_approach = "CBT"

\* C19: every Turn in the history has exactly one emotional_state, one
\* therapy_approach and one crisis_level in {none, medium, high}, and its
\* therapy_approach is crisis_intervention if and only if its crisis_level
\* is medium or high.
C19_TurnLabels ==
  \A i \in 1..Len(conversation_history) :
     LET turn == conversation_history[i]
     IN  /\ DOMAIN turn = {"user_message", "ai_response", "emotional_state",
                           "therapy_approach", "crisis_level"}
         /\ turn.emotional_state
              \in {"neutral", "anxious", "depressed", "angry", "overwhelmed",
                   "hopeful", "crisis"}
         /\ turn.therapy_approach
              \in {"cognitive_behavioral_therapy", "dialectical_behavior_therapy",
                   "humanistic_therapy", "solution_focused_therapy",
                   "mindfulness_based_therapy", "crisis_intervention"}
         /\ turn.crisis_level \in {"none", "medium", "high"}
         /\ turn.therapy_approach = "crisis_intervention"
              <=> turn.crisis_level \in {"medium", "high"}

\* The history holds a medium-risk turn under crisis intervention followed by
\* a turn without risk under another approach.
C19_Witness ==
  /\ Len(conversation_history) = 2
  /\ conversation_history[1].crisis_level = "medium"
  /\ conversation_history[1].therapy_approach = "crisis_intervention"
  /\ conversation_history[2].crisis_level = "none"
  /\ conversation_history[2].therapy_approach = "cognitive_behavioral_therapy"

\* C20: turns are append-only: across every operation (start_session,
\* process_message, end_session, get_session_stats) the history before the
\* operation is a prefix of the history after it; no recorded Turn is
\* modified, reordered or removed.
C20_AppendOnly ==
  [][ /\ Len(conversation_history') >= Len(conversation_history)
      /\ SubSeq(conversation_history', 1, Len(conversation_history))
           = conversation_history ]_vars

\* Two different turns were recorded, a session was started after them and
\* ended, and both are still in the history in their order.
C20_Witness ==
  /\ last_call.method = "end_session"
  /\ clock > 0
  /\ Len(conversation_history) = 2
  /\ conversation_history[1].user_message = "I want to kill myself"
  /\ conversation_history[2].user_message = "I feel hopeless and want to give up"

(***************************************************************************)
(* The end of a session (Spec).                                            *)
(***************************************************************************)

\* The three current fields of the context.
CurrentFields(context) ==
  << context.emotional_state, context.therapy_approach, context.crisis_detected >>

\* C21: ENDED is terminal for a context: after end_session(), a
\* process_message call issued before the next start_session() does not
\* append a Turn to the history and does not change the context's current
\* emotional_state, therapy_approach or crisis_detected.
C21_EndedIsTerminal ==
  [][ (last_call.method = "end_session" /\ last_call'.method = "process_message")
      => /\ conversation_history' = conversation_history
         /\ CurrentFields(session_context') = CurrentFields(session_context) ]_vars

\* C22: end_session() changes no state: the history and the context's
\* session_start, emotional_state, therapy_approach and crisis_detected are
\* the same after it as before, so get_session_stats() reports the same
\* total_exchanges and current values after the end as before it; the
\* response of end_session counts the exchanges of that unchanged history.
C22_EndChangesNoState ==
  [][ last_call'.method = "end_session"
      => /\ conversation_history' = conversation_history
         /\ session_context'.session_start = session_context.session_start
         /\ CurrentFields(session_context') = CurrentFields(session_context)
         /\ SessionStatsOf(conversation_history', session_context')
              = SessionStatsOf(conversation_history, session_context)
         /\ "total_exchanges" \in DOMAIN response'
         /\ response'.total_exchanges = Len(conversation_history') ]_vars

\* A session in which a high-risk message was processed has been ended: the
\* two entries and the crisis flag are still there.
C22_Witness ==
  /\ last_call.method = "end_session"
  /\ clock = 1
  /\ Len(conversation_history) = 2
  /\ session_context.crisis_detected = TRUE
  /\ session_context.therapy_approach = "CRISIS_INTERVENTION"
  /\ "total_exchanges" \in DOMAIN response
  /\ response.total_exchanges = 2

\* The number of entries of history that satisfy Test.
CountTurns(history, Test(_)) ==
  Cardinality({i \in 1..Len(history) : Test(history[i])})

\* The sum of the values of a record of counts.
RECURSIVE SumCounts(_)
SumCounts(counts) ==
  IF DOMAIN counts = {} THEN 0
  ELSE LET k == CHOOSE x \in DOMAIN counts : TRUE
       IN  counts[k] + SumCounts([x \in DOMAIN counts \ {k} |-> counts[x]])

EmotionDetected == ret /= PyNone /\ "message" \in DOMAIN args

\* The keyword groups in the order of the source, each with its state.
EmotionGroups ==
  << [ state |-> "ANXIOUS",
       keywords |-> {"anxious", "worried", "nervous", "stress", "panic", "fear", "scared"} ],
     [ state |-> "DEPRESSED",
       keywords |-> {"sad", "depressed", "hopeless", "worthless", "tired", "exhausted", "empty"} ],
     [ state |-> "ANGRY",
       keywords |-> {"angry", "furious", "mad", "frustrated", "irritated", "rage"} ],
     [ state |-> "OVERWHELMED",
       keywords |-> {"overwhelmed", "too much", "can't handle", "drowning", "swamped"} ],
     [ state |-> "HOPEFUL",
       keywords |-> {"hope", "better", "improving", "progress", "optimistic", "positive"} ] >>

\* The groups of which some keyword occurs in text, letter case ignored.
MatchingGroups(text) ==
  { g \in 1..Len(EmotionGroups) :
      \E k \in EmotionGroups[g].keywords : OccursIgnoringCase(k, text) }

\* C26: _detect_emotional_state returns the state of the first keyword
\* group, in the order anxious, depressed, angry, overwhelmed, hopeful, that
\* has a keyword occurring as a case-insensitive substring of the text, so a
\* text matching several groups gets only the earliest one; it returns
\* neutral when no group matches (the empty text included), and never the
\* crisis state.
C26_FirstGroupWins ==
  EmotionDetected =>
    \A matching \in {MatchingGroups(args.message.s)} :
      /\ ret.kind = "return"
      /\ ret.value /= "CRISIS"
      /\ matching = {} => ret.value = "NEUTRAL"
      /\ matching /= {} =>
           ret.value = EmotionGroups[CHOOSE g \in matching :
                                       \A h \in matching : g <= h].state

\* A text with a keyword of the hopeful group before one of the depression
\* group, in capitals, was classified as depressed.
C26_Witness ==
  /\ EmotionDetected
  /\ args.message = PyStr("betterTired")
  /\ ret = Return("DEPRESSED")

(***************************************************************************)
(* The crisis banner of the prompt (SpecCompose).                          *)
(***************************************************************************)

\* The words of the banner.
BannerWords == "CRISIS INDICATORS DETECTED - PRIORITIZE SAFETY ASSESSMENT"

\* text begins with start.
StartsWith(text, start) ==
  \A s \in {start} : Len(text) >= Len(s) /\ SubSeq(text, 1, Len(s)) = s

\* The persona block, then the banner, then the emotional-state line.
BannerAfterPersona(text) ==
  StartsWith(text, base_system_prompt \o "\n\n(!) " \o BannerWords
                   \o " (!)\n\nCURRENT EMOTIONAL STATE: ")

\* The persona block directly followed by the emotional-state line.
NoBannerAfterPersona(text) ==
  StartsWith(text, base_system_prompt \o "\n\nCURRENT EMOTIONAL STATE: ")

C28_DegradedLeavesState ==
  [][ ( /\ last_call'.method = "process_message"
        /\ "crisis_level" \in DOMAIN response'
        /\ response'.crisis_level = "unknown" )
      => /\ conversation_history' = conversation_history
         /\ CurrentFields(session_context') = CurrentFields(session_context) ]_vars

\* C30: for every text, detect_crisis_level of models/crisis_detection.py
\* gives the same outcome (the same level, or the same exception on a value
\* that is not a str) as detect_crisis_level of utils/therapy_prompts.py.
C30_DetectorsAgree ==
  ret /= PyNone => ret.crisis_detection = ret.therapy_prompts

\* A text with a self-harm phrase only: both detectors answer "high".
C30_Witness ==
  /\ ret /= PyNone
  /\ args.text = PyStr("Self Harm")
  /\ ret.crisis_detection = Return("high")
  /\ ret.therapy_prompts = Return("high")

(***************************************************************************)
(* Concurrent callers of process_message (SpecThreads, FairSpecThreads).   *)
(***************************************************************************)

\* Thread t's call has returned.
Done(t) == threads[t].pc = "done"

\* Thread t's call has returned the degraded response (or let an exception
\* escape).
Degraded(t) ==
  /\ Done(t)
  /\ \/ "error" \in DOMAIN threads[t].locals.result
     \/ "exception" \in DOMAIN threads[t].locals.result

\* Thread t's call has returned a response that is not the degraded one.
Answered(t) == Done(t) /\ ~Degraded(t)

\* The Turn a call that answered says it recorded: its message and what its
\* response carries.
TurnOf(t) ==
  LET l == threads[t].locals
  IN  [ user_message |-> l.user_message.s,
        ai_response |-> l.result.message,
        emotional_state |-> l.result.emotional_state,
        therapy_approach |-> l.result.therapy_approach,
        crisis_level |-> l.result.crisis_level ]

\* The Turns of the history equal to turn.
TurnsEqual(turn) ==
  {i \in 1..Len(conversation_history) : conversation_history[i] = turn}

\* C29: under every interleaving of concurrent process_message calls, each
\* call that returns a non-degraded response has appended exactly one Turn
\* (once every call has returned, the history holds as many Turns as calls
\* answered, and each answered call's Turn as often as calls answered with
\* it), and the emotional_state, therapy_approach and crisis_level of the
\* response are those of the call's own message and those of its Turn.
C29_OneTurnPerCallOwnLabels ==
  /\ \A t \in Threads :
       Answered(t) =>
         LET result == threads[t].locals.result
             own == ExpectedLabels[threads[t].locals.user_message]
         IN  /\ {"emotional_state", "therapy_approach", "crisis_level"}
                  \subseteq DOMAIN result
             /\ result.emotional_state = own.emotional_state
             /\ result.therapy_approach = own.therapy_approach
             /\ result.crisis_level = own.crisis_level
             /\ TurnsEqual(TurnOf(t)) /= {}
  /\ (\A t \in Threads : Done(t)) =>
       /\ Len(conversation_history) = Cardinality({t \in Threads : Answered(t)})
       /\ \A t \in Threads :
            Answered(t) =>
              Cardinality(TurnsEqual(TurnOf(t)))
                = Cardinality({u \in Threads : Answered(u) /\ TurnOf(u) = TurnOf(t)})

\* Two calls with different messages overlapped (the second entered before
\* the first had stored its entry), both answered, and the history holds
\* the two Turns.
C29_Witness ==
  /\ \A t \in Threads : Answered(t)
  /\ threads["t1"].locals.user_message = PyStr("I want to kill myself")
  /\ threads["t2"].locals.user_message
       = PyStr("I'm feeling really anxious about my presentation")
  /\ Len(conversation_history) = 2
  /\ conversation_history[1].crisis_level = "none"
  /\ conversation_history[2].crisis_level = "high"
  /\ session_context.emotional_state = "ANXIOUS"

\* The context's current emotional_state, therapy_approach and
\* crisis_detected are those of message m.
ContextIsOf(m) ==
  /\ RawValue[session_context.emotional_state] = ExpectedLabels[m].emotional_state
  /\ RawValue[session_context.therapy_approach] = ExpectedLabels[m].therapy_approach
  /\ session_context.crisis_detected
       <=> ExpectedLabels[m].crisis_level \in {"medium", "high"}

\* The message of the last Turn of the history is m.
LastTurnIsOf(m) ==
  /\ Len(conversation_history) > 0
  /\ conversation_history[Len(conversation_history)].user_message = m.s

\* The calls that have returned after writing the context: those of a text
\* message.
Writers == {t \in Threads : Done(t) /\ threads[t].locals.user_message.type = "str"}

Calling(t) == threads[t].pc \notin {"ready", "done"}

\* The text _generate_response returns when the request raised a
\* RequestException.
ConnectionApology ==
  "I'm unable to connect to my language model right now. Please try again later."

====
